---------------------------- MODULE Spec2Model ----------------------------
(***************************************************************************)
(* Verification model of the SeeMe backend gateway.                        *)
(*                                                                         *)
(*   - the ElevenLabs credential pool   (src/lib/elevenlabs-key-manager.ts) *)
(*   - the admission gate               (checkAndIncrementRateLimit,       *)
(*                                       checkAndIncrementVoiceLimit)      *)
(*   - the streaming normalizer         (streamOpenAI, streamAnthropic)    *)
(*   - the request orchestrator         (handler)                          *)
(*                                                                         *)
(* Each subsystem has its own specification (SpecPool, SpecGate,           *)
(* SpecStream, SpecHandler); the variables of the other subsystems are     *)
(* held at their initial value.                                            *)
(***************************************************************************)
EXTENDS Integers, Sequences, FiniteSets, TLC

(***************************************************************************)
(* Bounds of the model.                                                    *)
(***************************************************************************)
MaxKeys == 3
\* largest pool size (process.env.ELEVENLABS_API_KEYS)

MaxPoolOps == 2
\* number of pool operations in one behaviour

MaxEnvSteps == 1
\* number of upstream state changes in one behaviour

MaxTicks == 2
\* number of clock ticks in one behaviour

TickMs == 30001
\* length of one clock tick in milliseconds

NumReq == 2
\* number of admission requests in one behaviour (they may overlap)

MaxInFlight == 2
\* number of admission requests in flight at one time

MaxStoreFailures == 1
\* number of failing quota-store calls in one behaviour

DayTicks == 2
\* gate clock ticks per UTC day

MaxClock == 2
\* last value of the gate clock

CustomLimit == 2
\* user_limits.custom_voice_limit of a user that has one

\* Text fragments of the longest text stream.
MaxText == 5

\* Argument fragments of the longest tool call.
MaxFrag == 5

\* Clock ticks while one stream is decoded, and the length of one tick.
MaxStreamTicks == 2

StreamTickMs == 140001

(***************************************************************************)
(* Program constants.                                                      *)
(***************************************************************************)
VOICE_LIMIT == 3
\* part_001:551

TEXT_LIMIT == 20
\* part_001:552

DEFAULT_VOICE_LIMIT == 3
\* hume-tts.ts:9

CacheWindowMs == 60000

\* part_001:1037, 1197
streamTimeout == 280000
\* elevenlabs-key-manager.ts:77  Date.now() - lastChecked > 60000

CharLimit == 10
\* character_limit of every subscription the upstream stub reports

VARIABLES
  keys,             \* this.keys.length
  currentKeyIndex,  \* this.currentKeyIndex
  keyStatuses,      \* this.keyStatuses : key -> KeyStatus (or NoStatus)
  upstream,         \* what GET /v1/user/subscription answers for each key
  now,              \* Date.now()
  poolRes,          \* outcome of the last pool operation
  poolOps,          \* pool operations done so far
  envSteps,         \* upstream changes so far
  usage,            \* the usage_limits row of the device (or NoRow)
  usage0,           \* that row before the requests of this behaviour
  clock,            \* new Date() as seen by the admission gate
  storeFailures,    \* quota-store calls that failed so far
  pc,               \* per request: the await it is suspended at
  req,              \* per request: its arguments
  currentUsage,     \* per request: local currentUsage
  nextReset,        \* per request: local nextReset / newResetAt
  rateLimitResult,  \* per request: the gate's return value
  hpc,              \* handler: where the request is
  body,             \* handler: req.body
  httpStatus,       \* handler: status line sent (0: none yet)
  responseJson,     \* handler: body sent by res.status().json()
  telemetry,        \* handler: rows written by trackAI*
  upstreamCalls,    \* fetch calls made to the model provider
  script,           \* the frames the provider answers with
  wire,             \* what the provider has not delivered yet
  stalled,          \* the provider went silent
  buffer,           \* stream*: buffer
  accumulatedToolCall,  \* stream*: accumulatedToolCall / accumulatedToolUse
  toolCallIndex,    \* streamOpenAI: toolCallIndex
  readerCancelled,  \* reader.cancel() was called
  elapsed,          \* Date.now() - startTime of the decode loop
  error,            \* the error thrown to the handler's catch
  calls,            \* callback invocations, in order
  written,          \* res.write calls, in order
  responseChunks,   \* handler: responseChunks
  isClientConnected,\* handler: isClientConnected
  streamAborted,    \* handler: streamAborted
  synthesis,        \* the last request served by a synthesis endpoint
  agPc,             \* ai-gateway.ts: where the request is
  agBody,           \* ai-gateway.ts: req.body
  agDeviceId,       \* ai-gateway.ts: const deviceId
  agUsage,          \* ai-gateway.ts: usage_limits rows, by device_id
  agCurrentUsage,   \* ai-gateway.ts: local currentUsage
  agResult,         \* ai-gateway.ts: the gate's return value
  agStatus,         \* ai-gateway.ts: status line sent (0: none yet)
  agReads,          \* ai-gateway.ts: selects sent to usage_limits
  agWrites,         \* ai-gateway.ts: inserts and updates sent to it
  agUpstreamCalls,  \* ai-gateway.ts: fetch calls to the model provider
  vpPc,             \* hume-tts.ts: where the request is
  vpBody,           \* hume-tts.ts: req.body
  vpStatus,         \* hume-tts.ts: status line sent (0: none yet)
  vpUpstreamCalls   \* hume-tts.ts: fetch calls to the synthesis provider

poolVars == <<keys, currentKeyIndex, keyStatuses, upstream, now, poolRes,
              poolOps, envSteps>>

gateVars == <<usage, usage0, clock, storeFailures, pc, req, currentUsage,
              nextReset, rateLimitResult>>

gateRest == <<usage0, clock, storeFailures, pc, req, currentUsage,
              nextReset, rateLimitResult>>

frontVars == <<hpc, body, httpStatus, responseJson, telemetry,
               upstreamCalls>>

streamVars == <<script, wire, stalled, buffer, accumulatedToolCall,
                toolCallIndex, readerCancelled, elapsed, error, calls,
                written, responseChunks, isClientConnected, streamAborted>>

handlerVars == <<frontVars, streamVars>>

agVars == <<agPc, agBody, agDeviceId, agUsage, agCurrentUsage, agResult,
            agStatus, agReads, agWrites, agUpstreamCalls>>

vpVars == <<vpPc, vpBody, vpStatus, vpUpstreamCalls>>

endpointVars == <<synthesis, agVars, vpVars>>

notAg == <<poolVars, gateVars, handlerVars, synthesis, vpVars>>

notVp == <<poolVars, handlerVars, synthesis, agVars>>

vars == <<poolVars, gateVars, handlerVars, endpointVars>>

\* What a step of one subsystem leaves alone.
notPool == <<gateVars, handlerVars, endpointVars>>

notGate == <<poolVars, handlerVars, endpointVars>>

notHandler == <<poolVars, endpointVars>>

(***************************************************************************)
(* Credential pool: src/lib/elevenlabs-key-manager.ts                      *)
(***************************************************************************)
KeyIds == 0 .. (MaxKeys - 1)

Keys == 0 .. (keys - 1)

NoStatus == [status |-> "none"]

NoKey == -1

\* Answers of the subscription endpoint: an HTTP status and, for 200, the
\* character_count / character_limit of the body.  500 stands for every
\* answer that makes checkKeyStatus throw (non-ok status, network error).
Answer(code, count, limit) ==
  [code |-> code, character_count |-> count, character_limit |-> limit]

UpstreamAnswers ==
  { Answer(200, 0, CharLimit), Answer(200, CharLimit, CharLimit),
    Answer(401, 0, 0), Answer(429, 0, 0), Answer(500, 0, 0) }

\* line 158: isOverLimit = character_count >= character_limit
isOverLimitMut(count, limit) == count > limit

isOverLimitOf(count, limit) == count >= limit

\* line 88: this.currentKeyIndex = (this.currentKeyIndex + 1) % this.keys.length
nextIndexMut(idx) == idx

nextIndex(idx) == (idx + 1) % keys

\* lines 74, 84: return candidateKey, with this.currentKeyIndex left on
\* the candidate
cursorOnReturnMut(idx) == (idx + 1) % keys

cursorOnReturn(idx) == idx

\* line 77: Date.now() - status.lastChecked.getTime() > 60000
isStale(status) == now - status.lastChecked > CacheWindowMs

\* checkKeyStatus(key): the new keyStatuses map and whether the call threw.
checkKeyStatus(key, st) ==
  LET response == upstream[key] IN
  IF response.code = 401 THEN
    [threw |-> FALSE,
     st |-> [st EXCEPT ![key] =
               [status |-> "invalid", characterCount |-> 0,
                characterLimit |-> 0, remainingCharacters |-> 0,
                isOverLimit |-> TRUE, isNearLimit |-> FALSE,
                lastChecked |-> now]]]
  ELSE IF response.code = 429 THEN
    LET existingStatus == st[key]
        status == IF existingStatus # NoStatus THEN existingStatus
                  ELSE [status |-> "rate_limited", characterCount |-> 0,
                        characterLimit |-> 0, remainingCharacters |-> 0,
                        isOverLimit |-> TRUE, isNearLimit |-> TRUE,
                        lastChecked |-> now]
    IN [threw |-> FALSE, st |-> [st EXCEPT ![key] = status]]
  ELSE IF response.code # 200 THEN
    [threw |-> TRUE, st |-> st]
  ELSE
    LET count == response.character_count
        limit == response.character_limit
        remainingCharacters == IF limit - count > 0 THEN limit - count ELSE 0
        isOverLimit == isOverLimitOf(count, limit)
        \* usagePercentage >= 0.8 with usagePercentage = count / limit
        isNearLimit == limit > 0 /\ 10 * count >= 8 * limit
    IN [threw |-> FALSE,
        st |-> [st EXCEPT ![key] =
                  [status |-> IF isOverLimit THEN "exhausted" ELSE "active",
                   characterCount |-> count, characterLimit |-> limit,
                   remainingCharacters |-> remainingCharacters,
                   isOverLimit |-> isOverLimit, isNearLimit |-> isNearLimit,
                   lastChecked |-> now]]]

\* The while loop of getAvailableKey, from the candidate at idx on.
\* visited: the candidates examined so far, asked: the keys whose status
\* was fetched from upstream.
RECURSIVE scanKeys(_, _, _, _, _, _)
scanKeys(idx, attempts, st, visited, asked, startIndex) ==
  IF attempts >= keys THEN
    [outcome |-> "all_exhausted", key |-> NoKey, index |-> idx, st |-> st,
     visited |-> visited, calls |-> asked]
  ELSE
    LET candidateKey == idx
        status == st[candidateKey]
        seen == Append(visited, candidateKey)
        fetched == Append(asked, candidateKey)
        next == nextIndex(idx)
        advance(st2, calls2) ==
          IF next = startIndex /\ attempts + 1 >= keys
          THEN [outcome |-> "all_exhausted", key |-> NoKey, index |-> next,
                st |-> st2, visited |-> seen, calls |-> calls2]
          ELSE scanKeys(next, attempts + 1, st2, seen, calls2, startIndex)
        found(st2, calls2) ==
          [outcome |-> "key", key |-> candidateKey,
           index |-> cursorOnReturn(idx),
           st |-> st2, visited |-> seen, calls |-> calls2]
        thrown(st2, calls2) ==
          [outcome |-> "threw", key |-> NoKey, index |-> idx,
           st |-> st2, visited |-> seen, calls |-> calls2]
    IN
    IF status = NoStatus THEN
      LET r == checkKeyStatus(candidateKey, st)
          newStatus == r.st[candidateKey]
      IN IF r.threw THEN thrown(r.st, fetched)
         ELSE IF newStatus # NoStatus /\ newStatus.status = "active"
                 /\ ~newStatus.isOverLimit
              THEN found(r.st, fetched)
              ELSE advance(r.st, fetched)
    ELSE IF status.status = "active" /\ ~status.isOverLimit THEN
      LET stale == isStale(status)
          r == IF stale THEN checkKeyStatus(candidateKey, st)
               ELSE [threw |-> FALSE, st |-> st]
          calls2 == IF stale THEN fetched ELSE asked
          updatedStatus == r.st[candidateKey]
      IN IF r.threw THEN thrown(r.st, calls2)
         ELSE IF updatedStatus # NoStatus /\ ~updatedStatus.isOverLimit
              THEN found(r.st, calls2)
              ELSE advance(r.st, calls2)
    ELSE advance(st, asked)

\* getAvailableKey(): one whole call.
getAvailableKey ==
  /\ poolOps < MaxPoolOps
  /\ LET r == scanKeys(currentKeyIndex, 0, keyStatuses, <<>>, <<>>,
                       currentKeyIndex)
     IN /\ currentKeyIndex' = r.index
        /\ keyStatuses' = r.st
        /\ poolRes' = [op |-> "acquire", outcome |-> r.outcome,
                       key |-> r.key, startIndex |-> currentKeyIndex,
                       visited |-> r.visited, calls |-> r.calls]
  /\ poolOps' = poolOps + 1
  /\ UNCHANGED <<keys, upstream, now, envSteps, notPool>>

\* rotateKey()
rotateKeyMut(idx) == idx + 1

rotateKey(idx) == (idx + 1) % keys

\* handleAPIError(statusCode, key)
\* lines 225-226: the default branch only logs
onOtherStatusMut(idx) == rotateKey(idx)

onOtherStatus(idx) == idx

handleAPIError(statusCode, key) ==
  /\ poolOps < MaxPoolOps
  /\ key \in Keys
  /\ LET invalidStatus == [status |-> "invalid", characterCount |-> 0,
                           characterLimit |-> 0, remainingCharacters |-> 0,
                           isOverLimit |-> TRUE, isNearLimit |-> FALSE,
                           lastChecked |-> now]
         r == checkKeyStatus(key, keyStatuses)
     IN CASE statusCode = 429 ->
               /\ currentKeyIndex' = rotateKey(currentKeyIndex)
               /\ keyStatuses' = keyStatuses
               /\ poolRes' = [op |-> "report", code |-> statusCode,
                              outcome |-> "ok", key |-> key,
                              startIndex |-> currentKeyIndex,
                              visited |-> <<>>, calls |-> <<>>]
          [] statusCode = 401 ->
               /\ currentKeyIndex' = rotateKey(currentKeyIndex)
               /\ keyStatuses' = [keyStatuses EXCEPT ![key] = invalidStatus]
               /\ poolRes' = [op |-> "report", code |-> statusCode,
                              outcome |-> "ok", key |-> key,
                              startIndex |-> currentKeyIndex,
                              visited |-> <<>>, calls |-> <<>>]
          [] statusCode \in {402, 403} ->
               \* a throwing checkKeyStatus leaves handleAPIError before
               \* rotateKey is reached
               /\ currentKeyIndex' = IF r.threw THEN currentKeyIndex
                                     ELSE rotateKey(currentKeyIndex)
               /\ keyStatuses' = r.st
               /\ poolRes' = [op |-> "report", code |-> statusCode,
                              outcome |-> IF r.threw THEN "threw" ELSE "ok",
                              key |-> key, startIndex |-> currentKeyIndex,
                              visited |-> <<>>, calls |-> <<key>>]
          [] OTHER ->
               /\ currentKeyIndex' = onOtherStatus(currentKeyIndex)
               /\ keyStatuses' = keyStatuses
               /\ poolRes' = [op |-> "report", code |-> statusCode,
                              outcome |-> "ok", key |-> key,
                              startIndex |-> currentKeyIndex,
                              visited |-> <<>>, calls |-> <<>>]
  /\ poolOps' = poolOps + 1
  /\ UNCHANGED <<keys, upstream, now, envSteps, notPool>>

\* The statuses a caller reports: the four the switch names, and two it
\* does not.
StatusCodes == {401, 402, 403, 429, 404, 500}

ReportFailure ==
  \E statusCode \in StatusCodes : \E key \in KeyIds :
    handleAPIError(statusCode, key)

\* The subscription of one key changes upstream (usage, reset, revocation).
UpstreamChange ==
  /\ envSteps < MaxEnvSteps
  /\ \E key \in Keys : \E a \in UpstreamAnswers :
       /\ a # upstream[key]
       /\ upstream' = [upstream EXCEPT ![key] = a]
  /\ envSteps' = envSteps + 1
  /\ UNCHANGED <<keys, currentKeyIndex, keyStatuses, now, poolRes, poolOps,
                 notPool>>

\* Wall-clock time passes.
Tick ==
  /\ now < MaxTicks * TickMs
  /\ now' = now + TickMs
  /\ UNCHANGED <<keys, currentKeyIndex, keyStatuses, upstream, poolRes,
                 poolOps, envSteps, notPool>>

\* No synthesis request has been served.
NoSynthesis ==
  [endpoint |-> "none", acquire |-> "none", key |-> NoKey,
   upstreamStatus |-> 0, upstreamCalls |-> 0, status |-> 0,
   message |-> "none"]

\* new ElevenLabsKeyManager(): cursor 0, empty status cache.
InitPool ==
  /\ keys \in 1 .. MaxKeys
  /\ currentKeyIndex = 0
  /\ keyStatuses = [k \in KeyIds |-> NoStatus]
  /\ upstream \in [KeyIds -> UpstreamAnswers]
  /\ \A k \in KeyIds : k >= keys => upstream[k].code = 401
  /\ now = 0
  /\ poolRes = [op |-> "none", outcome |-> "none", key |-> NoKey,
                startIndex |-> 0, visited |-> <<>>, calls |-> <<>>]
  /\ poolOps = 0
  /\ envSteps = 0
  /\ synthesis = NoSynthesis

NextPool ==
  \/ getAvailableKey
  \/ ReportFailure
  \/ UpstreamChange
  \/ Tick

\* What POST /v1/text-to-speech answers: 401, 402, 403 and 429 all take
\* the same path (!response.ok).
SynthesisAnswers == {200, 401, 402, 403, 429}

\* pages/api/elevenlabs-preview.ts:10-64 (the same shape at
\* generate-vision-board-image.ts:150-229): validate the body, get a key,
\* call text-to-speech with it, answer.  Nothing is reported back to the
\* key manager.
Preview ==
  /\ poolOps < MaxPoolOps
  /\ poolOps' = poolOps + 1
  /\ \E valid \in BOOLEAN :
       IF ~valid
       THEN /\ synthesis' = [NoSynthesis EXCEPT !.endpoint = "preview",
                                                !.status = 400,
                                                !.message = "required"]
            /\ UNCHANGED <<currentKeyIndex, keyStatuses, poolRes>>
       ELSE
         LET r == scanKeys(currentKeyIndex, 0, keyStatuses, <<>>, <<>>,
                           currentKeyIndex)
         IN /\ currentKeyIndex' = r.index
            /\ keyStatuses' = r.st
            /\ poolRes' = [op |-> "acquire", outcome |-> r.outcome,
                           key |-> r.key, startIndex |-> currentKeyIndex,
                           visited |-> r.visited, calls |-> r.calls]
            /\ IF r.outcome # "key"
               THEN \* getAvailableKey threw: the catch block, lines 60-63
                    synthesis' =
                      [endpoint |-> "preview", acquire |-> r.outcome,
                       key |-> NoKey, upstreamStatus |-> 0,
                       upstreamCalls |-> 0, status |-> 500,
                       message |-> r.outcome]
               ELSE \E a \in SynthesisAnswers :
                      synthesis' =
                        [endpoint |-> "preview", acquire |-> r.outcome,
                         key |-> r.key, upstreamStatus |-> a,
                         upstreamCalls |-> 1,
                         status |-> IF a = 200 THEN 200 ELSE 500,
                         message |-> IF a = 200 THEN "audio"
                                     ELSE "api_error"]
  /\ UNCHANGED <<keys, upstream, now, envSteps, gateVars, handlerVars,
                 agVars, vpVars>>

NextSynthesis ==
  \/ Preview
  \/ UpstreamChange
  \/ Tick

\* The pool with nothing to do (specifications of the other subsystems).
PoolIdle ==
  /\ keys = 1
  /\ currentKeyIndex = 0
  /\ keyStatuses = [k \in KeyIds |-> NoStatus]
  /\ upstream = [k \in KeyIds |-> Answer(401, 0, 0)]
  /\ now = 0
  /\ poolRes = [op |-> "none", outcome |-> "none", key |-> NoKey,
                startIndex |-> 0, visited |-> <<>>, calls |-> <<>>]
  /\ poolOps = 0
  /\ envSteps = 0
  /\ synthesis = NoSynthesis

(***************************************************************************)
(* Admission gate: checkAndIncrementRateLimit (part_001:577-728) and       *)
(* checkAndIncrementVoiceLimit (pages/api/hume-tts.ts:25-133), both on the *)
(* usage_limits row of one device.                                         *)
(***************************************************************************)
Reqs == 1 .. NumReq

NoRow == [device_id |-> "none"]

Row(voice, text, hasKey, resetAt) ==
  [device_id |-> "dev", voice_sessions_count |-> voice,
   text_sessions_count |-> text, has_elevenlabs_key |-> hasKey,
   reset_at |-> resetAt]

\* part_001:555-567
BANNED_DEVICES == {"banned-dev"}

BANNED_USERS == {"banned-usr"}

BANNED_IPS == {}

\* part_001:604
exemptPromptTypes == {"dailyMetrics", "dailyBoosts"}

NoReq == [gate |-> "none"]

NoResult == [allowed |-> "none"]

Allowed == [allowed |-> TRUE, banned |-> FALSE, limitType |-> "none",
            used |-> -1, max |-> -1]

Banned == [allowed |-> FALSE, banned |-> TRUE, limitType |-> "text",
           used |-> 0, max |-> 0]

Denied(limitType, used, max) ==
  [allowed |-> FALSE, banned |-> FALSE, limitType |-> limitType,
   used |-> used, max |-> max]

\* part_001:622, 649-651: the next midnight UTC after t
NextMidnight(t) == ((t \div DayTicks) + 1) * DayTicks

\* A new request arrives in the next free slot, while fewer than
\* MaxInFlight are being served.
CanArrive(p) ==
  /\ pc[p] = "idle"
  /\ \A q \in Reqs : q < p => pc[q] # "idle"
  /\ Cardinality({q \in Reqs : pc[q] \notin {"idle", "done"}}) < MaxInFlight

\* A store call may fail while the failure budget lasts.
FailChoices == IF storeFailures < MaxStoreFailures THEN {FALSE, TRUE}
               ELSE {FALSE}

Finish(p, result) ==
  /\ pc' = [pc EXCEPT ![p] = "done"]
  /\ rateLimitResult' = [rateLimitResult EXCEPT ![p] = result]

Suspend(p, at) ==
  /\ pc' = [pc EXCEPT ![p] = at]
  /\ UNCHANGED rateLimitResult

\* part_001:673-717 up to the increment: bypass, limit test, or go on to
\* the counter update.
LimitCheckMut(p, cur) ==
  IF req[p].isVoiceMode THEN
    IF req[p].hasElevenLabsKey THEN Finish(p, Allowed)
    ELSE IF cur.voice_sessions_count > VOICE_LIMIT
    THEN Finish(p, Denied("voice", cur.voice_sessions_count, VOICE_LIMIT))
    ELSE Suspend(p, "increment")
  ELSE
    IF cur.text_sessions_count > TEXT_LIMIT
    THEN Finish(p, Denied("text", cur.text_sessions_count, TEXT_LIMIT))
    ELSE Suspend(p, "increment")

LimitCheck(p, cur) ==
  IF req[p].isVoiceMode THEN
    IF req[p].hasElevenLabsKey THEN Finish(p, Allowed)
    ELSE IF cur.voice_sessions_count >= VOICE_LIMIT
    THEN Finish(p, Denied("voice", cur.voice_sessions_count, VOICE_LIMIT))
    ELSE Suspend(p, "increment")
  ELSE
    IF cur.text_sessions_count >= TEXT_LIMIT
    THEN Finish(p, Denied("text", cur.text_sessions_count, TEXT_LIMIT))
    ELSE Suspend(p, "increment")

\* part_001:643-671 entered with the record cur: a reset is due, or the
\* limit check follows at once.
AfterLoad(p, cur) ==
  /\ currentUsage' = [currentUsage EXCEPT ![p] = cur]
  /\ IF clock >= cur.reset_at
     THEN /\ nextReset' = [nextReset EXCEPT ![p] = NextMidnight(clock)]
          /\ Suspend(p, "reset")
     ELSE /\ UNCHANGED nextReset
          /\ LimitCheck(p, cur)

\* checkAndIncrementRateLimit, lines 577-607: the ban lists and the exempt
\* prompt types, before the first store call.
GatewayRequests ==
  { r \in [deviceId : {"dev", "banned-dev"}, userId : {"none", "banned-usr"},
           promptType : {"chat", "dailyMetrics", "dailyBoosts"},
           isVoiceMode : BOOLEAN, hasElevenLabsKey : BOOLEAN] :
      /\ r.hasElevenLabsKey => r.isVoiceMode
      /\ r.promptType = "dailyBoosts" =>
           r.deviceId = "dev" /\ r.userId = "none"
      /\ ( \/ r.deviceId \in BANNED_DEVICES
           \/ r.userId \in BANNED_USERS
           \/ r.promptType \in exemptPromptTypes ) => ~r.isVoiceMode }

\* part_001:605: promptType && exemptPromptTypes.includes(promptType)
exemptMut(promptType) == FALSE

exempt(promptType) == promptType \in exemptPromptTypes

\* part_001:598: userId && BANNED_USERS.includes(userId)
userBannedMut(userId) == FALSE

userBanned(userId) == userId # "none" /\ userId \in BANNED_USERS

GwEnter(p, r) ==
  /\ req' = [req EXCEPT ![p] =
               [gate |-> "gateway", deviceId |-> r.deviceId,
                userId |-> r.userId, clientIP |-> "ip",
                promptType |-> r.promptType,
                isVoiceMode |-> r.isVoiceMode,
                hasElevenLabsKey |-> r.hasElevenLabsKey,
                voiceLimit |-> VOICE_LIMIT, at |-> clock,
                storeError |-> FALSE]]
  /\ IF "ip" \in BANNED_IPS THEN Finish(p, Banned)
     ELSE IF r.deviceId \in BANNED_DEVICES THEN Finish(p, Banned)
     ELSE IF userBanned(r.userId) THEN Finish(p, Banned)
     ELSE IF exempt(r.promptType) THEN Finish(p, Allowed)
     ELSE Suspend(p, "select")
  /\ UNCHANGED <<usage, usage0, clock, storeFailures, currentUsage,
                 nextReset>>

GwCall(p) ==
  /\ CanArrive(p)
  /\ \E r \in GatewayRequests : GwEnter(p, r)
  /\ UNCHANGED notGate

\* lines 610-619 and, when the record exists, 643-687.
GwSelect(p) ==
  /\ pc[p] = "select"
  /\ \E fail \in FailChoices :
       /\ storeFailures' = storeFailures + (IF fail THEN 1 ELSE 0)
       /\ req' = [req EXCEPT ![p].storeError = @ \/ fail]
       /\ IF fail \/ usage = NoRow
          THEN /\ Suspend(p, "insert")
               /\ UNCHANGED <<currentUsage, nextReset>>
          ELSE AfterLoad(p, usage)
  /\ UNCHANGED <<usage, usage0, clock, notGate>>

\* lines 620-641, then 643-687 with the new record.
GwInsert(p) ==
  /\ pc[p] = "insert"
  /\ \E fail \in FailChoices :
       /\ storeFailures' = storeFailures + (IF fail THEN 1 ELSE 0)
       /\ req' = [req EXCEPT ![p].storeError = @ \/ fail]
       /\ IF fail \/ usage # NoRow
          THEN \* insertError (also: the row exists by now): fail open
               /\ Finish(p, Allowed)
               /\ UNCHANGED <<usage, currentUsage, nextReset>>
          ELSE LET newUsage == Row(0, 0, req[p].hasElevenLabsKey,
                                   NextMidnight(clock))
               IN /\ usage' = newUsage
                  /\ AfterLoad(p, newUsage)
  /\ UNCHANGED <<usage0, clock, notGate>>

\* lines 653-671, then 673-687.
GwReset(p) ==
  /\ pc[p] = "reset"
  /\ \E fail \in FailChoices :
       /\ storeFailures' = storeFailures + (IF fail THEN 1 ELSE 0)
       /\ req' = [req EXCEPT ![p].storeError = @ \/ fail]
       /\ IF fail
          THEN \* resetError: continue with the existing counts
               /\ UNCHANGED <<usage, currentUsage>>
               /\ LimitCheck(p, currentUsage[p])
          ELSE LET resetUsage == [usage EXCEPT !.voice_sessions_count = 0,
                                               !.text_sessions_count = 0,
                                               !.reset_at = nextReset[p]]
               IN /\ usage' = resetUsage
                  /\ currentUsage' = [currentUsage EXCEPT ![p] = resetUsage]
                  /\ LimitCheck(p, resetUsage)
  /\ UNCHANGED <<usage0, clock, nextReset, notGate>>

\* lines 689-698 (voice) and 710-716 (text): the new counter is the one
\* read earlier plus one; the update's error is not looked at.
GwIncrement(p) ==
  /\ pc[p] = "increment"
  /\ req[p].gate = "gateway"
  /\ \E fail \in FailChoices :
       /\ storeFailures' = storeFailures + (IF fail THEN 1 ELSE 0)
       /\ req' = [req EXCEPT ![p].storeError = @ \/ fail]
       /\ IF fail THEN UNCHANGED usage
          ELSE IF req[p].isVoiceMode
          THEN usage' = [usage EXCEPT
                   !.voice_sessions_count =
                       currentUsage[p].voice_sessions_count + 1,
                   !.has_elevenlabs_key = req[p].hasElevenLabsKey]
          ELSE usage' = [usage EXCEPT
                   !.text_sessions_count =
                       currentUsage[p].text_sessions_count + 1]
  /\ Finish(p, Allowed)
  /\ UNCHANGED <<usage0, clock, currentUsage, nextReset, notGate>>

\* lines 718-726: a store call that throws (instead of returning an
\* error) lands in the catch block, which denies.
GwThrow(p) ==
  /\ pc[p] \in {"select", "insert", "reset", "increment"}
  /\ req[p].gate = "gateway"
  /\ storeFailures < MaxStoreFailures
  /\ storeFailures' = storeFailures + 1
  /\ req' = [req EXCEPT ![p].storeError = TRUE]
  /\ Finish(p, Denied("text", 0, TEXT_LIMIT))
  /\ UNCHANGED <<usage, usage0, clock, currentUsage, nextReset, notGate>>

\* checkAndIncrementVoiceLimit, lines 29-45: the limit in force is the
\* user's custom limit if there is one, else the global one.
HumeEnter(p, deviceId, userId, customVoiceLimit) ==
  /\ LET globalVoiceLimit == DEFAULT_VOICE_LIMIT
         voiceLimit == IF customVoiceLimit # 0 THEN customVoiceLimit
                       ELSE globalVoiceLimit
     IN req' = [req EXCEPT ![p] =
                  [gate |-> "hume", deviceId |-> deviceId,
                   userId |-> userId,
                   clientIP |-> "ip", promptType |-> "tts",
                   isVoiceMode |-> TRUE, hasElevenLabsKey |-> FALSE,
                   voiceLimit |-> voiceLimit, at |-> clock,
                   storeError |-> FALSE]]
  /\ Suspend(p, "hselect")
  /\ UNCHANGED <<usage, usage0, clock, storeFailures, currentUsage,
                 nextReset>>

HumeCall(p) ==
  /\ CanArrive(p)
  /\ \E customVoiceLimit \in {0, CustomLimit} :
       HumeEnter(p, "dev", IF customVoiceLimit # 0 THEN "usr" ELSE "none",
                 customVoiceLimit)
  /\ UNCHANGED notGate

\* lines 48-55, 74-77, 95, 107-115.
HumeSelect(p) ==
  /\ pc[p] = "hselect"
  /\ \E fail \in FailChoices :
       /\ storeFailures' = storeFailures + (IF fail THEN 1 ELSE 0)
       /\ req' = [req EXCEPT ![p].storeError = @ \/ fail]
       /\ IF fail \/ usage = NoRow
          THEN /\ Suspend(p, "hinsert")
               /\ UNCHANGED <<currentUsage, nextReset>>
          ELSE /\ currentUsage' = [currentUsage EXCEPT ![p] = usage]
               /\ IF clock >= usage.reset_at
                  THEN /\ nextReset' = [nextReset EXCEPT
                                          ![p] = NextMidnight(clock)]
                       /\ Suspend(p, "hreset")
                  ELSE /\ UNCHANGED nextReset
                       /\ IF usage.has_elevenlabs_key
                          THEN Suspend(p, "hbypass")
                          ELSE IF usage.voice_sessions_count
                                    >= req[p].voiceLimit
                          THEN Finish(p, Denied("voice",
                                        usage.voice_sessions_count,
                                        req[p].voiceLimit))
                          ELSE Suspend(p, "increment")
  /\ UNCHANGED <<usage, usage0, clock, notGate>>

\* lines 56-71: the record is created with the voice counter at 1; an
\* insert error is thrown and caught at 128-132 (allow).
HumeInsert(p) ==
  /\ pc[p] = "hinsert"
  /\ \E fail \in FailChoices :
       /\ storeFailures' = storeFailures + (IF fail THEN 1 ELSE 0)
       /\ req' = [req EXCEPT ![p].storeError = @ \/ fail]
       /\ IF fail \/ usage # NoRow THEN UNCHANGED usage
          ELSE usage' = Row(1, 0, FALSE, NextMidnight(clock))
  /\ Finish(p, Allowed)
  /\ UNCHANGED <<usage0, clock, currentUsage, nextReset, notGate>>

\* lines 78-92.
HumeReset(p) ==
  /\ pc[p] = "hreset"
  /\ \E fail \in FailChoices :
       /\ storeFailures' = storeFailures + (IF fail THEN 1 ELSE 0)
       /\ req' = [req EXCEPT ![p].storeError = @ \/ fail]
       /\ IF fail THEN UNCHANGED usage
          ELSE usage' = [usage EXCEPT !.voice_sessions_count = 1,
                                      !.text_sessions_count = 0,
                                      !.reset_at = nextReset[p]]
  /\ Finish(p, Allowed)
  /\ UNCHANGED <<usage0, clock, currentUsage, nextReset, notGate>>

\* lines 95-104: the stored flag bypasses the limit, the counter is still
\* written.
HumeBypass(p) ==
  /\ pc[p] = "hbypass"
  /\ \E fail \in FailChoices :
       /\ storeFailures' = storeFailures + (IF fail THEN 1 ELSE 0)
       /\ req' = [req EXCEPT ![p].storeError = @ \/ fail]
       /\ IF fail THEN UNCHANGED usage
          ELSE usage' = [usage EXCEPT !.voice_sessions_count =
                           currentUsage[p].voice_sessions_count + 1]
  /\ Finish(p, Allowed)
  /\ UNCHANGED <<usage0, clock, currentUsage, nextReset, notGate>>

\* lines 117-127; an update error is thrown and caught at 128-132 (allow).
HumeIncrement(p) ==
  /\ pc[p] = "increment"
  /\ req[p].gate = "hume"
  /\ \E fail \in FailChoices :
       /\ storeFailures' = storeFailures + (IF fail THEN 1 ELSE 0)
       /\ req' = [req EXCEPT ![p].storeError = @ \/ fail]
       /\ IF fail THEN UNCHANGED usage
          ELSE usage' = [usage EXCEPT !.voice_sessions_count =
                           currentUsage[p].voice_sessions_count + 1]
  /\ Finish(p, Allowed)
  /\ UNCHANGED <<usage0, clock, currentUsage, nextReset, notGate>>

GateTick ==
  /\ clock < MaxClock
  /\ clock' = clock + 1
  /\ UNCHANGED <<usage, usage0, storeFailures, pc, req, currentUsage,
                 nextReset, rateLimitResult, notGate>>

\* The records the device can have when the requests arrive: none, or one
\* left by earlier requests (reset_at 0: due for a reset).
InitRows ==
  {NoRow} \cup
  { Row(c[1], c[2], k, r) :
      c \in { <<0, 0>>, <<VOICE_LIMIT - 1, TEXT_LIMIT - 1>>,
              <<VOICE_LIMIT, 0>>, <<0, TEXT_LIMIT>> },
      k \in BOOLEAN, r \in {0, DayTicks} }

GateStart(rows) ==
  /\ usage \in rows
  /\ usage0 = usage
  /\ clock = 1
  /\ storeFailures = 0
  /\ pc = [p \in Reqs |-> "idle"]
  /\ req = [p \in Reqs |-> NoReq]
  /\ currentUsage = [p \in Reqs |-> NoRow]
  /\ nextReset = [p \in Reqs |-> 0]
  /\ rateLimitResult = [p \in Reqs |-> NoResult]

InitGate == GateStart(InitRows)

GateIdle == GateStart({NoRow})

NextGate ==
  \/ \E p \in Reqs : GwCall(p)
  \/ \E p \in Reqs : GwSelect(p)
  \/ \E p \in Reqs : GwInsert(p)
  \/ \E p \in Reqs : GwReset(p)
  \/ \E p \in Reqs : GwIncrement(p)
  \/ \E p \in Reqs : GwThrow(p)
  \/ \E p \in Reqs : HumeCall(p)
  \/ \E p \in Reqs : HumeSelect(p)
  \/ \E p \in Reqs : HumeInsert(p)
  \/ \E p \in Reqs : HumeReset(p)
  \/ \E p \in Reqs : HumeBypass(p)
  \/ \E p \in Reqs : HumeIncrement(p)
  \/ GateTick

(***************************************************************************)
(* Streaming normalizer: streamOpenAI (part_001:968-1118) and              *)
(* streamAnthropic (part_001:1121-1268); the same decode loops are in      *)
(* pages/api/ai-gateway-streaming.ts:363-452 and 524-602.                  *)
(*                                                                         *)
(* Strings are sequences of characters.  A frame is what JSON.parse makes  *)
(* of the data of one SSE line.                                            *)
(***************************************************************************)
Frame(kind, text, tool_calls, finish_reason, name, id) ==
  [kind |-> kind, text |-> text, tool_calls |-> tool_calls,
   finish_reason |-> finish_reason, name |-> name, id |-> id]

\* Family A (OpenAI): {"choices":[{"delta":{content, tool_calls},
\* "finish_reason":...}]}, and the sentinel [DONE].
Delta(content, tool_calls, finish_reason) ==
  Frame("chunk", content, tool_calls, finish_reason, "", "")

ToolCallDelta(index, name, arguments) ==
  [index |-> index, name |-> name, arguments |-> arguments]

DoneSentinel == Frame("[DONE]", <<>>, <<>>, "null", "", "")

\* Family B (Anthropic): {"type": ...} events.
TextDelta(text) == Frame("text_delta", text, <<>>, "null", "", "")

ToolUseStart(name, id) == Frame("tool_use_start", <<>>, <<>>, "null", name, id)

TextStart == Frame("text_start", <<>>, <<>>, "null", "", "")

InputJsonDelta(partial_json) ==
  Frame("input_json_delta", partial_json, <<>>, "null", "", "")

ContentBlockStop == Frame("content_block_stop", <<>>, <<>>, "null", "", "")

OtherEvent == Frame("message_start", <<>>, <<>>, "null", "", "")

\* A data line that is not JSON (the text breaks off), and JSON that is
\* neither family's event ({"object":"ping"}).
Garbled == Frame("garbled", <<"x">>, <<>>, "null", "", "")

Unrecognized == Frame("unrecognized", <<"x">>, <<>>, "null", "", "")

\* The bytes of one SSE event: the line "data: <json>", cut in two, then
\* "\n\n".
NL == [half |-> 0, f |-> DoneSentinel]

Serialize(f) ==
  IF f = Garbled THEN << [half |-> 1, f |-> f], NL, NL >>
  ELSE << [half |-> 1, f |-> f], [half |-> 2, f |-> f], NL, NL >>

RECURSIVE SerializeAll(_)
SerializeAll(frames) ==
  IF frames = <<>> THEN <<>>
  ELSE Serialize(Head(frames)) \o SerializeAll(Tail(frames))

\* buffer.split('\n'): the pieces of toks between newlines, the last piece
\* being what follows the last newline.
RECURSIVE split(_, _, _)
split(toks, cur, out) ==
  IF toks = <<>> THEN Append(out, cur)
  ELSE IF Head(toks).half = 0
       THEN split(Tail(toks), <<>>, Append(out, cur))
       ELSE split(Tail(toks), Append(cur, Head(toks)), out)

\* line.startsWith('data: ')
startsWithData(line) == line # <<>> /\ line[1].half = 1

\* JSON.parse(data) of a line's data succeeds when the line is whole.
isWholeLine(line) ==
  Len(line) = 2 /\ line[1].half = 1 /\ line[2].half = 2 /\ line[1].f = line[2].f

\* JSON.parse of an arguments string: an object "{" keys "}" parses to its
\* keys; anything else throws.  '' is replaced by '{}' by the caller.
ParseJSON(str) ==
  IF /\ Len(str) >= 2
     /\ str[1] = "{"
     /\ str[Len(str)] = "}"
     /\ \A i \in 2 .. (Len(str) - 1) : str[i] \notin {"{", "}"}
  THEN [ok |-> TRUE, value |-> SubSeq(str, 2, Len(str) - 1)]
  ELSE [ok |-> FALSE, value |-> <<>>]

EmptyObject == <<"{", "}">>

\* accumulatedToolCall = {} : name undefined, arguments undefined.  An
\* undefined arguments string and '' are both written <<>>: every read of
\* it is `arguments || ...`, or happens after the name has reset it to ''.
NoToolCall == [name |-> "", arguments |-> <<>>, id |-> ""]

NoInvocation == [toolName |-> "", arguments |-> <<>>, id |-> ""]

\* One callback invocation, and one res.write of the handler.
Call(cb, chunk, invocation, ret) ==
  [cb |-> cb, chunk |-> chunk, invocation |-> invocation, ret |-> ret]

Written(event, chunk, invocation) ==
  [event |-> event, chunk |-> chunk, invocation |-> invocation]

\* part_001:855, 860: res.write(`data: ...\n\n`)
resWriteMut(out, frame) == <<frame>> \o out

resWrite(out, frame) == Append(out, frame)

\* part_001:1110-1112, 1261-1263: catch (e) { console.error(...) }
onParseErrorMut(st) == [st EXCEPT !.returned = TRUE]

onParseError(st) == st

\* handler's onChunk callback (part_001:849-857, 869-877).
onChunk(st, chunk) ==
  IF ~isClientConnected
  THEN [st EXCEPT !.streamAborted = TRUE,
                  !.calls = Append(@, Call("onChunk", chunk, NoInvocation, FALSE)),
                  !.ret = FALSE]
  ELSE [st EXCEPT !.responseChunks = Append(@, chunk),
                  !.written = resWrite(@, Written("chunk", chunk,
                                                   NoInvocation)),
                  !.calls = Append(@, Call("onChunk", chunk, NoInvocation, TRUE)),
                  !.ret = TRUE]

\* handler's onToolInvocation callback (part_001:858-862, 878-882).
onToolInvocation(st, invocation) ==
  LET s1 == [st EXCEPT !.calls =
                Append(@, Call("onToolInvocation", <<>>, invocation, TRUE))]
  IN IF isClientConnected
     THEN [s1 EXCEPT !.written =
              resWrite(@, Written("toolInvocation", <<>>, invocation))]
     ELSE s1

\* part_001:1066, 1222: if (delta.content) / parsed.delta?.text
hasContentMut(f) == FALSE

hasContent(f) == f.text # <<>>

\* part_001:1068, 1224: if (shouldContinue === false)
shouldStopMut(ret) == FALSE

shouldStop(ret) == ret = FALSE

\* part_001:1087: arguments = (arguments || '') + toolCall.function.arguments
appendArgumentsMut(acc, fragment) == fragment \o acc

appendArguments(acc, fragment) == acc \o fragment

\* part_001:1078-1090: the for loop over delta.tool_calls.
RECURSIVE accumulate(_, _)
accumulate(st, tool_calls) ==
  IF tool_calls = <<>> THEN st
  ELSE
    LET toolCall == Head(tool_calls)
        s1 == [st EXCEPT !.toolCallIndex = toolCall.index]
        s2 == IF toolCall.name # ""
              THEN [s1 EXCEPT !.acc.name = toolCall.name,
                              !.acc.arguments = <<>>]
              ELSE s1
        s3 == IF toolCall.arguments # <<>>
              THEN [s2 EXCEPT !.acc.arguments =
                       appendArguments(@, toolCall.arguments)]
              ELSE s2
    IN accumulate(IF toolCall.index # -1 THEN s3 ELSE st, Tail(tool_calls))

\* part_001:1093-1108 and 1246-1260: the tool call is complete.  The
\* accumulator is cleared inside the try, after the callback.
complete(st, clearIndex) ==
  LET args == ParseJSON(IF st.acc.arguments = <<>> THEN EmptyObject
                        ELSE st.acc.arguments)
      invocation == [toolName |-> st.acc.name, arguments |-> args.value,
                     id |-> IF st.acc.id = "" THEN "generated"
                            ELSE st.acc.id]
  IN IF args.ok
     THEN [onToolInvocation(st, invocation) EXCEPT
             !.acc = NoToolCall,
             !.toolCallIndex = IF clearIndex THEN -1 ELSE @]
     ELSE st

\* streamOpenAI, part_001:1054-1114: one line of the for loop.
processLineOpenAI(st, line) ==
  IF ~startsWithData(line) THEN st
  ELSE IF ~isWholeLine(line) THEN onParseError(st)   \* JSON.parse throws
  ELSE
    LET parsed == line[1].f IN
    IF parsed.kind = "[DONE]" THEN st
    ELSE IF parsed.kind # "chunk" THEN st      \* no choices[0].delta
    ELSE
      LET s1 == IF hasContent(parsed) THEN onChunk(st, parsed.text) ELSE st
      IN IF hasContent(parsed) /\ shouldStop(s1.ret)
         THEN [s1 EXCEPT !.readerCancelled = TRUE, !.returned = TRUE]
         ELSE
           LET s2 == accumulate(s1, parsed.tool_calls)
           IN IF parsed.finish_reason = "tool_calls" /\ s2.acc.name # ""
              THEN complete(s2, TRUE)
              ELSE s2

\* part_001:1246: ... && accumulatedToolUse.name
toolUseOpenMut(acc) == TRUE

toolUseOpen(acc) == acc.name # ""

\* streamAnthropic, part_001:1214-1264: one line of the for loop.
processLineAnthropic(st, line) ==
  IF ~startsWithData(line) THEN st
  ELSE IF ~isWholeLine(line) THEN onParseError(st)   \* JSON.parse throws
  ELSE
    LET parsed == line[1].f
        isText == parsed.kind = "text_delta" /\ hasContent(parsed)
        s1 == IF isText THEN onChunk(st, parsed.text) ELSE st
    IN IF isText /\ shouldStop(s1.ret)
       THEN [s1 EXCEPT !.readerCancelled = TRUE, !.returned = TRUE]
       ELSE
         LET s2 == IF parsed.kind = "tool_use_start"
                   THEN [s1 EXCEPT !.acc = [name |-> parsed.name,
                                            arguments |-> <<>>,
                                            id |-> parsed.id]]
                   ELSE s1
             s3 == IF parsed.kind = "input_json_delta"
                   THEN [s2 EXCEPT !.acc.arguments = @ \o parsed.text]
                   ELSE s2
         IN IF parsed.kind = "content_block_stop" /\ toolUseOpen(s3.acc)
            THEN complete(s3, FALSE)
            ELSE s3

\* for (const line of lines), left at the first return.
RECURSIVE processLines(_, _, _)
processLines(provider, st, lines) ==
  IF lines = <<>> \/ st.returned THEN st
  ELSE processLines(provider,
                    IF provider = "openai"
                    THEN processLineOpenAI(st, Head(lines))
                    ELSE processLineAnthropic(st, Head(lines)),
                    Tail(lines))

\* The locals of the decode loop and of the handler around it.
LoopState ==
  [acc |-> accumulatedToolCall, toolCallIndex |-> toolCallIndex,
   calls |-> calls, written |-> written, responseChunks |-> responseChunks,
   streamAborted |-> streamAborted, readerCancelled |-> readerCancelled,
   ret |-> TRUE, returned |-> FALSE]

\* What the provider answers with.
Chars == <<"a", "b", "c", "d", "e", "f", "g">>

Texts(n) == [i \in 1 .. n |-> Delta(<<Chars[i]>>, <<>>, "null")]

\* n fragments of the arguments {"b":..,"c":..}: "{", keys, "}".
Fragment(i, n) ==
  IF i = 1 THEN <<"{">> ELSE IF i = n THEN <<"}">> ELSE <<Chars[i]>>

Fragments(n) ==
  [i \in 1 .. n |-> Delta(<<>>, <<ToolCallDelta(0, "", Fragment(i, n))>>,
                          "null")]

JsonDeltas(n) == [i \in 1 .. n |-> InputJsonDelta(Fragment(i, n))]

ScriptsOpenAI ==
  { Texts(n) \o <<DoneSentinel>> : n \in {1, 3, MaxText} }
  \cup
  { << Delta(<<>>, <<>>, "null"), Delta(<<"a">>, <<>>, "null"),
       Delta(<<"b", "c">>, <<>>, "null"), Delta(<<>>, <<>>, "stop"),
       DoneSentinel >> }
  \cup
  { <<Delta(<<>>, <<ToolCallDelta(0, "lookup", <<>>)>>, "null")>>
      \o Fragments(n)
      \o <<Delta(<<>>, <<>>, "tool_calls"), DoneSentinel>> :
      n \in {2, MaxFrag} }
  \cup
  { << Delta(<<"a">>, <<>>, "null"),
       Delta(<<>>, <<ToolCallDelta(0, "lookup", <<"{">>)>>, "null"),
       Delta(<<>>, <<ToolCallDelta(0, "", <<"b", "}">>)>>, "null"),
       Delta(<<>>, <<>>, "tool_calls"), DoneSentinel >> }
  \cup
  { << Delta(<<"a">>, <<>>, "null"), Garbled,
       Delta(<<>>, <<ToolCallDelta(0, "lookup", <<"{">>)>>, "null"),
       Unrecognized,
       Delta(<<>>, <<ToolCallDelta(0, "", <<"b", "}">>)>>, "null"),
       Garbled, Delta(<<>>, <<>>, "tool_calls"),
       Delta(<<"c">>, <<>>, "null"), DoneSentinel >> }

ScriptsAnthropic ==
  { <<OtherEvent, TextStart>> \o [i \in 1 .. n |-> TextDelta(<<Chars[i]>>)]
      \o <<ContentBlockStop, OtherEvent>> : n \in {1, MaxText} }
  \cup
  { <<OtherEvent, ToolUseStart("lookup", "tu1")>> \o JsonDeltas(n)
      \o <<ContentBlockStop, OtherEvent>> : n \in {2, MaxFrag} }
  \cup
  { << TextStart, TextDelta(<<"a">>), ContentBlockStop,
       ToolUseStart("lookup", "tu1"), ContentBlockStop, OtherEvent >> }
  \cup
  { << TextStart, TextDelta(<<"a">>), Garbled, ContentBlockStop,
       ToolUseStart("lookup", "tu1"), InputJsonDelta(<<"{">>),
       Unrecognized, Garbled, InputJsonDelta(<<"b", "}">>),
       ContentBlockStop, TextStart, TextDelta(<<"c">>),
       ContentBlockStop >> }

\* Answers whose tool arguments do not parse at the boundary, or that end
\* with no boundary at all, next to one whose arguments parse.
TruncatedOpenAI ==
  { << Delta(<<"a">>, <<>>, "null"),
       Delta(<<>>, <<ToolCallDelta(0, "lookup", <<"{">>)>>, "null"),
       Delta(<<>>, <<ToolCallDelta(0, "", <<"b">>)>>, "null"),
       Delta(<<>>, <<>>, "tool_calls"), DoneSentinel >>,
    << Delta(<<>>, <<ToolCallDelta(0, "lookup", <<"{">>)>>, "null"),
       Delta(<<>>, <<>>, "tool_calls"),
       Delta(<<"a">>, <<ToolCallDelta(0, "", <<"}">>)>>, "null"),
       Delta(<<>>, <<>>, "tool_calls"), DoneSentinel >>,
    << Delta(<<>>, <<ToolCallDelta(0, "lookup", <<"{">>)>>, "null"),
       Delta(<<>>, <<ToolCallDelta(0, "", <<"}">>)>>, "null"),
       Delta(<<>>, <<>>, "stop"), DoneSentinel >>,
    << Delta(<<>>, <<ToolCallDelta(0, "lookup", <<"{">>)>>, "null"),
       Delta(<<>>, <<ToolCallDelta(0, "", <<"b", "}">>)>>, "null"),
       Delta(<<>>, <<>>, "tool_calls"), DoneSentinel >> }

TruncatedAnthropic ==
  { << TextStart, TextDelta(<<"a">>), ContentBlockStop,
       ToolUseStart("lookup", "tu1"), InputJsonDelta(<<"{">>),
       InputJsonDelta(<<"b">>), ContentBlockStop, OtherEvent >>,
    << ToolUseStart("lookup", "tu1"), InputJsonDelta(<<"{">>),
       ContentBlockStop, TextStart, TextDelta(<<"a">>),
       ContentBlockStop, OtherEvent >>,
    << ToolUseStart("lookup", "tu1"), InputJsonDelta(<<"{">>),
       InputJsonDelta(<<"}">>), OtherEvent >>,
    << ToolUseStart("lookup", "tu1"), InputJsonDelta(<<"{">>),
       InputJsonDelta(<<"b", "}">>), ContentBlockStop, OtherEvent >> }

\* Family-A answers that carry two tool calls, index 0 and index 1, one
\* after the other or in the same delta, next to one with a single call.
ParallelOpenAI ==
  { << Delta(<<>>, <<ToolCallDelta(0, "lookup", <<"{">>)>>, "null"),
       Delta(<<>>, <<ToolCallDelta(0, "", <<"b", "}">>)>>, "null"),
       Delta(<<>>, <<ToolCallDelta(1, "save", <<"{">>)>>, "null"),
       Delta(<<>>, <<ToolCallDelta(1, "", <<"c", "}">>)>>, "null"),
       Delta(<<>>, <<>>, "tool_calls"), DoneSentinel >>,
    << Delta(<<"a">>, <<ToolCallDelta(0, "lookup", <<"{", "b", "}">>),
                        ToolCallDelta(1, "save", <<"{", "c", "}">>)>>,
             "null"),
       Delta(<<>>, <<>>, "tool_calls"), DoneSentinel >>,
    << Delta(<<>>, <<ToolCallDelta(0, "lookup", <<"{">>),
                     ToolCallDelta(1, "save", <<"{">>)>>, "null"),
       Delta(<<>>, <<ToolCallDelta(0, "", <<"b", "}">>),
                     ToolCallDelta(1, "", <<"c", "}">>)>>, "null"),
       Delta(<<>>, <<>>, "tool_calls"), DoneSentinel >>,
    << Delta(<<"a">>, <<ToolCallDelta(0, "lookup", <<"{">>)>>, "null"),
       Delta(<<>>, <<ToolCallDelta(0, "", <<"b", "}">>)>>, "null"),
       Delta(<<>>, <<>>, "tool_calls"), DoneSentinel >> }

TruncatedScripts(provider) ==
  IF provider = "openai" THEN TruncatedOpenAI
  ELSE IF provider = "anthropic" THEN TruncatedAnthropic
  ELSE {<<>>}

Scripts(provider) ==
  IF provider = "openai" THEN ScriptsOpenAI
  ELSE IF provider = "anthropic" THEN ScriptsAnthropic
  ELSE {<<>>}

(***************************************************************************)
(* Request orchestrator: handler (part_001:730-965).                       *)
(***************************************************************************)
NoBody == [provider |-> "none"]

\* req.body as far as the handler looks at it.  userApiKey: the key is
\* present and non-blank; deviceId "": missing or blank.
HandlerRequests ==
  { b \in [message : BOOLEAN, userApiKey : BOOLEAN,
           deviceId : {"", "dev", "banned-dev"},
           userId : {"none", "banned-usr"},
           promptType : {"chat", "dailyMetrics"},
           isVoiceMode : BOOLEAN, hasElevenLabsKey : BOOLEAN,
           provider : {"openai", "anthropic", "other"}] :
      /\ b.hasElevenLabsKey => b.isVoiceMode
      /\ ~b.message =>
           /\ ~b.userApiKey /\ b.deviceId = "dev" /\ b.userId = "none"
           /\ b.promptType = "chat" /\ ~b.isVoiceMode
           /\ b.provider = "openai"
      /\ ( \/ b.deviceId # "dev"
           \/ b.userId # "none"
           \/ b.promptType \in exemptPromptTypes ) => ~b.isVoiceMode
      /\ ( \/ b.deviceId # "dev"
           \/ b.userId # "none"
           \/ b.promptType \in exemptPromptTypes
           \/ b.isVoiceMode ) => b.provider = "openai"
      /\ b.provider = "other" => ~b.userApiKey }

\* The answers of the provider while the whole handler is followed.
ShortScripts(provider) ==
  IF provider = "openai"
  THEN { <<Delta(<<"a">>, <<>>, "null"), DoneSentinel>> }
  ELSE IF provider = "anthropic"
  THEN { <<TextDelta(<<"a">>), ContentBlockStop>> }
  ELSE {<<>>}

\* The records of the device while the whole handler is followed.
HandlerRows ==
  { NoRow, Row(0, 0, FALSE, DayTicks), Row(VOICE_LIMIT, 0, FALSE, DayTicks),
    Row(0, TEXT_LIMIT, FALSE, DayTicks), Row(0, TEXT_LIMIT, FALSE, 0) }

\* One row of ai_usage as the handler hands it to trackAIRequest,
\* trackAIResponse (with streamAborted, part_001:911) and trackAIError.
AiUsage(event_type, aborted) ==
  [event_type |-> event_type, streamAborted |-> aborted]

NoJson == [error |-> "none", limitType |-> "none", used |-> -1, max |-> -1]

Reject(status, json) ==
  /\ hpc' = "rejected"
  /\ httpStatus' = status
  /\ responseJson' = json

\* lines 742-786: the message test, the own-key shortcut, the device id
\* test, and the call of the gate.
HReceive ==
  /\ hpc = "idle"
  /\ pc[1] = "idle"
  /\ \E b \in HandlerRequests : \E s \in ShortScripts(b.provider) :
       /\ body' = b
       /\ script' = s
       /\ wire' = SerializeAll(s)
       /\ IF ~b.message
          THEN /\ Reject(400, [NoJson EXCEPT !.error = "Message is required"])
               /\ UNCHANGED gateVars
          ELSE IF b.userApiKey
          THEN /\ hpc' = "admitted"
               /\ UNCHANGED <<httpStatus, responseJson, gateVars>>
          ELSE IF b.deviceId = ""
          THEN /\ Reject(400, [NoJson EXCEPT
                                  !.error = "Device ID is required"])
               /\ UNCHANGED gateVars
          ELSE /\ GwEnter(1, b)
               /\ hpc' = "gate"
               /\ UNCHANGED <<httpStatus, responseJson>>
  /\ UNCHANGED <<telemetry, upstreamCalls, stalled, buffer,
                 accumulatedToolCall, toolCallIndex, readerCancelled,
                 elapsed, error, calls, written, responseChunks,
                 isClientConnected, streamAborted, notHandler>>

\* line 788: if (!rateLimitResult.allowed)
isDeniedMut(result) == FALSE

isDenied(result) == ~result.allowed

\* lines 788-805: the gate has returned.
HGateReturn ==
  /\ hpc = "gate"
  /\ pc[1] = "done"
  /\ IF ~isDenied(rateLimitResult[1])
     THEN hpc' = "admitted" /\ UNCHANGED <<httpStatus, responseJson>>
     ELSE IF rateLimitResult[1].banned
     THEN Reject(403, [NoJson EXCEPT !.error = "Access denied"])
     ELSE Reject(429,
                 [error |-> IF rateLimitResult[1].limitType = "voice"
                            THEN "Voice session limit reached"
                            ELSE "Text session limit reached",
                  limitType |-> rateLimitResult[1].limitType,
                  used |-> rateLimitResult[1].used,
                  max |-> rateLimitResult[1].max])
  /\ UNCHANGED <<body, telemetry, upstreamCalls, streamVars, gateVars,
                 notHandler>>

\* lines 1277-1293, 1299-1317: try { await supabase...insert(...) }
\* catch (error) { console.error(...) }: a failed insert is not rethrown.
trackThrowsMut(logged) == ~logged

trackThrows(logged) == FALSE

\* lines 808-845: trackAIRequest (its failures are swallowed, 1276-1296),
\* the SSE headers, the close listener, the locals.
HBegin ==
  /\ hpc = "admitted"
  /\ \E logged \in BOOLEAN :
       /\ telemetry' = IF logged
                       THEN Append(telemetry, AiUsage("request", FALSE))
                       ELSE telemetry
       /\ IF trackThrows(logged)
          THEN hpc' = "threw" /\ error' = "telemetry"
               /\ UNCHANGED httpStatus
          ELSE /\ httpStatus' = 200
               /\ hpc' = IF body.provider \in {"openai", "anthropic"}
                         THEN "fetch" ELSE "returned"
               /\ UNCHANGED error
  /\ UNCHANGED <<body, responseJson, upstreamCalls, script, wire, stalled,
                 buffer, accumulatedToolCall, toolCallIndex,
                 readerCancelled, elapsed, calls, written, responseChunks,
                 isClientConnected, streamAborted, gateVars, notHandler>>

\* lines 1010-1038 (1170-1198): the fetch, the response test, the locals
\* of the loop.
\* part_001:1021-1024, 1181-1184: if (!response.ok) throw new Error(...)
afterFetchMut(ok) == "top"

afterFetch(ok) == IF ok THEN "top" ELSE "threw"

StreamFetch ==
  /\ hpc = "fetch"
  /\ upstreamCalls' = upstreamCalls + 1
  /\ \E ok \in BOOLEAN :
       /\ hpc' = afterFetch(ok)
       /\ error' = IF ok THEN error ELSE "api_error"
  /\ UNCHANGED <<body, httpStatus, responseJson,
                 telemetry, script, wire, stalled, buffer,
                 accumulatedToolCall, toolCallIndex, readerCancelled,
                 elapsed, calls, written, responseChunks,
                 isClientConnected, streamAborted, gateVars, notHandler>>

\* lines 1040-1046 (1200-1206): the timeout test at the top of the loop.
LoopTop ==
  /\ hpc = "top"
  /\ IF elapsed > streamTimeout
     THEN /\ readerCancelled' = TRUE
          /\ error' = "timeout"
          /\ hpc' = "threw"
     ELSE /\ hpc' = "read"
          /\ UNCHANGED <<readerCancelled, error>>
  /\ UNCHANGED <<body, httpStatus, responseJson,
                 telemetry, upstreamCalls, script, wire,
                 stalled, buffer, accumulatedToolCall, toolCallIndex,
                 elapsed, calls, written, responseChunks,
                 isClientConnected, streamAborted, gateVars, notHandler>>

\* lines 1048-1114 (1208-1264): reader.read() returns n more tokens, or
\* done; the buffer is cut into lines and the lines are processed.
\* part_001:1053, 1212: buffer = lines.pop() || ''
carryMut(lines) == <<>>

carry(lines) == lines[Len(lines)]

LoopRead ==
  /\ hpc = "read"
  /\ ~stalled
  /\ IF wire = <<>>
     THEN /\ hpc' = "returned"
          /\ UNCHANGED <<wire, buffer, accumulatedToolCall, toolCallIndex,
                         readerCancelled, calls, written, responseChunks,
                         streamAborted>>
     ELSE \E n \in 1 .. Len(wire) :
            LET lines == split(buffer \o SubSeq(wire, 1, n), <<>>, <<>>)
                st == processLines(body.provider, LoopState,
                                   SubSeq(lines, 1, Len(lines) - 1))
            IN /\ wire' = SubSeq(wire, n + 1, Len(wire))
               /\ buffer' = carry(lines)
               /\ accumulatedToolCall' = st.acc
               /\ toolCallIndex' = st.toolCallIndex
               /\ readerCancelled' = st.readerCancelled
               /\ calls' = st.calls
               /\ written' = st.written
               /\ responseChunks' = st.responseChunks
               /\ streamAborted' = st.streamAborted
               /\ hpc' = IF st.returned THEN "returned" ELSE "top"
  /\ UNCHANGED <<body, httpStatus, responseJson,
                 telemetry, upstreamCalls, script, stalled,
                 elapsed, error, isClientConnected, gateVars, notHandler>>

\* The provider stops sending, for good.
UpstreamStall ==
  /\ hpc \in {"top", "read"}
  /\ ~stalled
  /\ stalled' = TRUE
  /\ UNCHANGED <<frontVars, script, wire, buffer, accumulatedToolCall,
                 toolCallIndex, readerCancelled, elapsed, error, calls,
                 written, responseChunks, isClientConnected, streamAborted,
                 gateVars, notHandler>>

\* lines 834-837: req.on('close').
Disconnect ==
  /\ hpc \in {"fetch", "top", "read"}
  /\ isClientConnected
  /\ isClientConnected' = FALSE
  /\ UNCHANGED <<frontVars, script, wire, stalled, buffer,
                 accumulatedToolCall, toolCallIndex, readerCancelled,
                 elapsed, error, calls, written, responseChunks,
                 streamAborted, gateVars, notHandler>>

\* Date.now() moves on while the loop runs.
StreamTick ==
  /\ hpc \in {"top", "read"}
  /\ elapsed < MaxStreamTicks * StreamTickMs
  /\ elapsed' = elapsed + StreamTickMs
  /\ UNCHANGED <<frontVars, script, wire, stalled, buffer,
                 accumulatedToolCall, toolCallIndex, readerCancelled,
                 error, calls, written, responseChunks, isClientConnected,
                 streamAborted, gateVars, notHandler>>

\* part_001:890-964: neither the end of the try block nor the catch block
\* has a call on usage_limits.
quotaAfterResponseMut(row) ==
  IF row # NoRow /\ row.text_sessions_count > 0
  THEN [row EXCEPT !.text_sessions_count = @ - 1]
  ELSE row

quotaAfterResponse(row) == row

\* line 892: if (isClientConnected && !streamAborted)
sendsDoneMut(connected, aborted) == FALSE

sendsDone(connected, aborted) == connected /\ ~aborted

\* lines 890-916: the completion event, trackAIResponse (its failures are
\* swallowed, 1298-1319), res.end().
HFinish ==
  /\ hpc = "returned"
  /\ written' = IF sendsDone(isClientConnected, streamAborted)
                THEN Append(written, Written("[DONE]", <<>>, NoInvocation))
                ELSE written
  /\ \E logged \in BOOLEAN :
       /\ telemetry' = IF logged THEN Append(telemetry,
                                   AiUsage("response", streamAborted))
                       ELSE telemetry
       /\ IF trackThrows(logged)
          THEN hpc' = "threw" /\ error' = "telemetry"
          ELSE hpc' = "ended" /\ UNCHANGED error
  /\ usage' = quotaAfterResponse(usage)
  /\ UNCHANGED <<body, httpStatus, responseJson,
                 upstreamCalls, script, wire, stalled,
                 buffer, accumulatedToolCall, toolCallIndex, readerCancelled,
                 elapsed, calls, responseChunks, isClientConnected,
                 streamAborted, gateRest, notHandler>>

\* lines 918-964: the catch block: one error event, res.end(),
\* trackAIError inside its own try.
HCatch ==
  /\ hpc = "threw"
  /\ written' = Append(written, Written("error", <<error>>, NoInvocation))
  /\ \E logged \in BOOLEAN :
       telemetry' = IF logged THEN Append(telemetry, AiUsage("error", FALSE))
                    ELSE telemetry
  /\ hpc' = "ended"
  /\ usage' = quotaAfterResponse(usage)
  /\ UNCHANGED <<body, httpStatus, responseJson,
                 upstreamCalls, script, wire, stalled,
                 buffer, accumulatedToolCall, toolCallIndex, readerCancelled,
                 elapsed, error, calls, responseChunks, isClientConnected,
                 streamAborted, gateRest, notHandler>>

\* The locals before the first statement of the handler.
StreamLocals ==
  /\ stalled = FALSE
  /\ buffer = <<>>
  /\ accumulatedToolCall = NoToolCall
  /\ toolCallIndex = -1
  /\ readerCancelled = FALSE
  /\ elapsed = 0
  /\ error = "none"
  /\ calls = <<>>
  /\ written = <<>>
  /\ responseChunks = <<>>
  /\ isClientConnected = TRUE
  /\ streamAborted = FALSE

HandlerIdle ==
  /\ hpc = "idle"
  /\ body = NoBody
  /\ httpStatus = 0
  /\ responseJson = NoJson
  /\ telemetry = <<>>
  /\ upstreamCalls = 0
  /\ script = <<>>
  /\ wire = <<>>
  /\ StreamLocals

InitHandler == HandlerIdle

\* The handler about to call stream* (line 843) for a request that brought
\* its own provider key: the gate was not entered.
InitStream ==
  /\ hpc = "fetch"
  /\ body \in { b \in HandlerRequests :
                  /\ b.message /\ b.userApiKey /\ b.deviceId = "dev"
                  /\ b.userId = "none" /\ b.promptType = "chat"
                  /\ ~b.isVoiceMode }
  /\ httpStatus = 200
  /\ responseJson = NoJson
  /\ telemetry = <<AiUsage("request", FALSE)>>
  /\ upstreamCalls = 0
  /\ script \in Scripts(body.provider)
  /\ wire = SerializeAll(script)
  /\ StreamLocals

\* The handler at its provider call, the provider answering with tool
\* arguments that may not parse.
InitTruncated ==
  /\ hpc = "fetch"
  /\ body \in { b \in HandlerRequests :
                  /\ b.message /\ b.userApiKey /\ b.deviceId = "dev"
                  /\ b.userId = "none" /\ b.promptType = "chat"
                  /\ ~b.isVoiceMode }
  /\ httpStatus = 200
  /\ responseJson = NoJson
  /\ telemetry = <<AiUsage("request", FALSE)>>
  /\ upstreamCalls = 0
  /\ script \in TruncatedScripts(body.provider)
  /\ wire = SerializeAll(script)
  /\ StreamLocals

\* The handler at its call of streamOpenAI, the provider answering with
\* several tool calls.
InitParallel ==
  /\ hpc = "fetch"
  /\ body \in { b \in HandlerRequests :
                  /\ b.message /\ b.userApiKey /\ b.deviceId = "dev"
                  /\ b.userId = "none" /\ b.promptType = "chat"
                  /\ ~b.isVoiceMode /\ b.provider = "openai" }
  /\ httpStatus = 200
  /\ responseJson = NoJson
  /\ telemetry = <<AiUsage("request", FALSE)>>
  /\ upstreamCalls = 0
  /\ script \in ParallelOpenAI
  /\ wire = SerializeAll(script)
  /\ StreamLocals

NextStream ==
  \/ StreamFetch
  \/ LoopTop
  \/ LoopRead
  \/ UpstreamStall
  \/ Disconnect
  \/ StreamTick
  \/ HFinish
  \/ HCatch

NextHandler ==
  \/ HReceive
  \/ GwSelect(1)
  \/ GwInsert(1)
  \/ GwReset(1)
  \/ GwIncrement(1)
  \/ GwThrow(1)
  \/ HGateReturn
  \/ HBegin
  \/ StreamFetch
  \/ LoopTop
  \/ LoopRead
  \/ UpstreamStall
  \/ Disconnect
  \/ StreamTick
  \/ HFinish
  \/ HCatch

(***************************************************************************)
(* The gateway of pages/api/ai-gateway.ts: its own admission gate          *)
(* (lines 45-135) and the front of its handler (lines 137-192).            *)
(***************************************************************************)
AG_TEXT_LIMIT == 100
\* ai-gateway.ts:42

AgDevices == {"dev", "unknown"}

AgNoRow == [voice_sessions_count |-> -1, text_sessions_count |-> -1]

AgRow(voice, text) ==
  [voice_sessions_count |-> voice, text_sessions_count |-> text]

AgRows ==
  { AgNoRow, AgRow(0, 0), AgRow(VOICE_LIMIT, 0), AgRow(0, AG_TEXT_LIMIT) }

AgRequests ==
  { b \in [message : BOOLEAN, userApiKey : BOOLEAN, deviceId : {"", "dev"},
           promptType : {"chat", "dailyMetrics"}, isVoiceMode : BOOLEAN,
           hasElevenLabsKey : BOOLEAN] :
      /\ b.hasElevenLabsKey => b.isVoiceMode
      /\ ~b.message =>
           /\ ~b.userApiKey /\ b.deviceId = "dev"
           /\ b.promptType = "chat" /\ ~b.isVoiceMode }

AgNoBody == [message |-> FALSE]

AgNoResult == [allowed |-> FALSE, limitType |-> "unset", used |-> -1,
               max |-> -1]

AgAllowed == [allowed |-> TRUE, limitType |-> "none", used |-> -1,
              max |-> -1]

AgDenied(limitType, used, max) ==
  [allowed |-> FALSE, limitType |-> limitType, used |-> used, max |-> max]

\* line 169: const deviceId = context.deviceId || 'unknown'
agDeviceIdOf(deviceId) == IF deviceId = "" THEN "unknown" ELSE deviceId

\* lines 150-175 and 51-55: the message test, the own-key shortcut, the
\* device id, the exempt prompt types.
AgReceive ==
  /\ agPc = "idle"
  /\ \E b \in AgRequests :
       /\ agBody' = b
       /\ IF ~b.message
          THEN /\ agPc' = "rejected"
               /\ agStatus' = 400
               /\ UNCHANGED <<agDeviceId, agResult>>
          ELSE IF b.userApiKey
          THEN /\ agPc' = "admitted"
               /\ UNCHANGED <<agDeviceId, agResult, agStatus>>
          ELSE /\ agDeviceId' = agDeviceIdOf(b.deviceId)
               /\ IF b.promptType \in exemptPromptTypes
                  THEN agPc' = "gateDone" /\ agResult' = AgAllowed
                  ELSE agPc' = "select" /\ UNCHANGED agResult
               /\ UNCHANGED agStatus
  /\ UNCHANGED <<agUsage, agCurrentUsage, agReads, agWrites,
                 agUpstreamCalls, notAg>>

\* lines 58-65: select ... .single(); no row is an error of .single().
AgSelect ==
  /\ agPc = "select"
  /\ agReads' = agReads + 1
  /\ \E fetchError \in BOOLEAN :
       IF fetchError \/ agUsage[agDeviceId] = AgNoRow
       THEN agPc' = "insert" /\ agCurrentUsage' = AgNoRow
       ELSE agPc' = "check" /\ agCurrentUsage' = agUsage[agDeviceId]
  /\ UNCHANGED <<agBody, agDeviceId, agUsage, agResult, agStatus, agWrites,
                 agUpstreamCalls, notAg>>

\* lines 67-83: the insert; device_id is unique, so it fails when the row
\* is there; a failure lets the request in.
AgInsert ==
  /\ agPc = "insert"
  /\ agWrites' = agWrites + 1
  /\ \E insertError \in BOOLEAN :
       IF insertError \/ agUsage[agDeviceId] # AgNoRow
       THEN /\ agResult' = AgAllowed
            /\ agPc' = "gateDone"
            /\ UNCHANGED <<agUsage, agCurrentUsage>>
       ELSE /\ agUsage' = [agUsage EXCEPT ![agDeviceId] = AgRow(0, 0)]
            /\ agCurrentUsage' = AgRow(0, 0)
            /\ agPc' = "check"
            /\ UNCHANGED agResult
  /\ UNCHANGED <<agBody, agDeviceId, agStatus, agReads, agUpstreamCalls,
                 notAg>>

\* lines 86-130: the limit test and the update; the update's error is not
\* looked at, and a throw is caught at 131-134: both let the request in.
AgCheck ==
  /\ agPc = "check"
  /\ agPc' = "gateDone"
  /\ LET voice == agCurrentUsage.voice_sessions_count
         text == agCurrentUsage.text_sessions_count
     IN IF agBody.isVoiceMode /\ agBody.hasElevenLabsKey
        THEN agResult' = AgAllowed /\ UNCHANGED <<agUsage, agWrites>>
        ELSE IF agBody.isVoiceMode /\ voice >= VOICE_LIMIT
        THEN /\ agResult' = AgDenied("voice", voice, VOICE_LIMIT)
             /\ UNCHANGED <<agUsage, agWrites>>
        ELSE IF ~agBody.isVoiceMode /\ text >= AG_TEXT_LIMIT
        THEN /\ agResult' = AgDenied("text", text, AG_TEXT_LIMIT)
             /\ UNCHANGED <<agUsage, agWrites>>
        ELSE /\ agResult' = AgAllowed
             /\ agWrites' = agWrites + 1
             /\ \E updated \in BOOLEAN :
                  agUsage' =
                    IF ~updated THEN agUsage
                    ELSE IF agBody.isVoiceMode
                    THEN [agUsage EXCEPT ![agDeviceId].voice_sessions_count
                                            = voice + 1]
                    ELSE [agUsage EXCEPT ![agDeviceId].text_sessions_count
                                            = text + 1]
  /\ UNCHANGED <<agBody, agDeviceId, agCurrentUsage, agStatus, agReads,
                 agUpstreamCalls, notAg>>

\* lines 177-187: the gate has returned.
AgGateReturn ==
  /\ agPc = "gateDone"
  /\ IF agResult.allowed
     THEN agPc' = "admitted" /\ UNCHANGED agStatus
     ELSE agPc' = "rejected" /\ agStatus' = 429
  /\ UNCHANGED <<agBody, agDeviceId, agUsage, agCurrentUsage, agResult,
                 agReads, agWrites, agUpstreamCalls, notAg>>

\* lines 190-259: the SSE header and the provider call.
AgServe ==
  /\ agPc = "admitted"
  /\ agPc' = "served"
  /\ agStatus' = 200
  /\ agUpstreamCalls' = agUpstreamCalls + 1
  /\ UNCHANGED <<agBody, agDeviceId, agUsage, agCurrentUsage, agResult,
                 agReads, agWrites, notAg>>

AgLocals ==
  /\ agPc = "idle"
  /\ agBody = AgNoBody
  /\ agDeviceId = "unset"
  /\ agCurrentUsage = AgNoRow
  /\ agResult = AgNoResult
  /\ agStatus = 0
  /\ agReads = 0
  /\ agWrites = 0
  /\ agUpstreamCalls = 0

AgIdle == AgLocals /\ agUsage = [d \in AgDevices |-> AgNoRow]

InitAg == AgLocals /\ agUsage \in [AgDevices -> AgRows]

NextAg ==
  \/ AgReceive
  \/ AgSelect
  \/ AgInsert
  \/ AgCheck
  \/ AgGateReturn
  \/ AgServe

(***************************************************************************)
(* The voice proxy of pages/api/hume-tts.ts: the handler (lines 135-260)   *)
(* around checkAndIncrementVoiceLimit; pages/api/openai-preview.ts:112-160 *)
(* has the same front.                                                     *)
(***************************************************************************)
VpRequests ==
  [valid : BOOLEAN, deviceId : {"", "dev", "banned-dev"},
   userId : {"none", "usr", "banned-usr"}]

VpNoBody == [valid |-> FALSE]

\* What POST /v0/tts answers; lines 218-229 pass a failure's status on.
VpAnswers == {200, 401, 429, 500}

\* lines 144-163: the required fields, then the gate when a device id
\* came with the request.
VpReceive ==
  /\ vpPc = "idle"
  /\ pc[1] = "idle"
  /\ \E b \in VpRequests :
       /\ vpBody' = b
       /\ IF ~b.valid
          THEN /\ vpPc' = "rejected"
               /\ vpStatus' = 400
               /\ UNCHANGED gateVars
          ELSE IF b.deviceId = ""
          THEN /\ vpPc' = "admitted"
               /\ UNCHANGED <<vpStatus, gateVars>>
          ELSE /\ vpPc' = "gate"
               /\ \E customVoiceLimit \in
                      (IF b.userId = "none" THEN {0} ELSE {0, CustomLimit}) :
                    HumeEnter(1, b.deviceId, b.userId, customVoiceLimit)
               /\ UNCHANGED vpStatus
  /\ UNCHANGED <<vpUpstreamCalls, notVp>>

\* lines 165-181: the gate has returned.
VpGateReturn ==
  /\ vpPc = "gate"
  /\ pc[1] = "done"
  /\ IF rateLimitResult[1].allowed
     THEN vpPc' = "admitted" /\ UNCHANGED vpStatus
     ELSE vpPc' = "rejected" /\ vpStatus' = 429
  /\ UNCHANGED <<vpBody, vpUpstreamCalls, gateVars, notVp>>

\* lines 183-260: the provider key of the environment, the synthesis call,
\* the answer.
VpSynthesize ==
  /\ vpPc = "admitted"
  /\ vpPc' = "done"
  /\ \E humeApiKey \in BOOLEAN :
       IF ~humeApiKey
       THEN vpStatus' = 500 /\ UNCHANGED vpUpstreamCalls
       ELSE /\ vpUpstreamCalls' = vpUpstreamCalls + 1
            /\ \E status \in VpAnswers : vpStatus' = status
  /\ UNCHANGED <<vpBody, gateVars, notVp>>

VpIdle ==
  /\ vpPc = "idle"
  /\ vpBody = VpNoBody
  /\ vpStatus = 0
  /\ vpUpstreamCalls = 0

NextVp ==
  \/ VpReceive
  \/ HumeSelect(1)
  \/ HumeInsert(1)
  \/ HumeReset(1)
  \/ HumeBypass(1)
  \/ HumeIncrement(1)
  \/ VpGateReturn
  \/ VpSynthesize

\* Each specification follows one subsystem; the others are at rest.
StartPool == InitPool /\ GateIdle /\ HandlerIdle /\ AgIdle /\ VpIdle

StartGate == InitGate /\ PoolIdle /\ HandlerIdle /\ AgIdle /\ VpIdle

StartStream == InitStream /\ PoolIdle /\ GateIdle /\ AgIdle /\ VpIdle

StartHandler ==
  InitHandler /\ PoolIdle /\ GateStart(HandlerRows) /\ AgIdle /\ VpIdle

StartAg == InitAg /\ PoolIdle /\ GateIdle /\ HandlerIdle /\ VpIdle

SpecAg == StartAg /\ [][NextAg]_vars

StartVp == VpIdle /\ PoolIdle /\ GateStart(InitRows) /\ HandlerIdle /\ AgIdle

SpecVp == StartVp /\ [][NextVp]_vars

SpecPool == StartPool /\ [][NextPool]_vars

SpecSynthesis == StartPool /\ [][NextSynthesis]_vars

SpecGate == StartGate /\ [][NextGate]_vars

SpecStream == StartStream /\ [][NextStream]_vars

StartTruncated == InitTruncated /\ PoolIdle /\ GateIdle /\ AgIdle /\ VpIdle

SpecTruncated == StartTruncated /\ [][NextStream]_vars

StartParallel == InitParallel /\ PoolIdle /\ GateIdle /\ AgIdle /\ VpIdle

SpecParallel == StartParallel /\ [][NextStream]_vars

\* The code's own steps are taken when they can be; the provider, the
\* client and the clock are under no obligation.
SpecStreamFair ==
  /\ SpecStream
  /\ WF_vars(StreamFetch)
  /\ WF_vars(LoopTop)
  /\ WF_vars(LoopRead)
  /\ WF_vars(HFinish)
  /\ WF_vars(HCatch)

SpecHandler == StartHandler /\ [][NextHandler]_vars

(***************************************************************************)
(* Claims about the credential pool.                                       *)
(***************************************************************************)
\* The health classification of an upstream answer (spec 4.2).
Classify(a) ==
  IF a.code = 401 THEN "invalid"
  ELSE IF a.code = 429 THEN "rate_limited"
  ELSE IF a.code # 200 THEN "unknown"
  ELSE IF a.character_count >= a.character_limit THEN "exhausted"
  ELSE "active"

\* The health acquire() is to judge a credential by (spec 4.2): the cached
\* health if it was checked within the cache window, else what a refresh
\* against upstream answers.
Health(k) ==
  IF keyStatuses[k] # NoStatus
     /\ now - keyStatuses[k].lastChecked <= CacheWindowMs
  THEN keyStatuses[k].status
  ELSE Classify(upstream[k])

\* A step of the behaviour that is one call of getAvailableKey.
IsAcquireStep == poolOps' = poolOps + 1 /\ poolRes'.op = "acquire"

\* The candidates examined are one full round of the list from the cursor.
OneFullScan(visited, startIndex) ==
  /\ Len(visited) = keys
  /\ \A i \in 1 .. keys : visited[i] = (startIndex + i - 1) % keys

\* C3: whenever at least one credential of the pool is active (and no
\* status call fails), acquire() returns an active credential and does not
\* raise the all-exhausted error, from every cursor position.
C3_AcquireFindsActive ==
  [][ ( /\ IsAcquireStep
        /\ \E k \in Keys : Health(k) = "active"
        /\ \A k \in Keys : upstream[k].code # 500 )
      => ( /\ poolRes'.outcome = "key"
           /\ keyStatuses'[poolRes'.key].status = "active" ) ]_vars

\* C4: when every credential is exhausted, acquire() raises the
\* all-exhausted error after one full scan from the cursor in which each
\* credential is examined exactly once.
C4_AllExhaustedAfterOneScan ==
  [][ ( /\ IsAcquireStep
        /\ \A k \in Keys : Health(k) = "exhausted" )
      => ( /\ poolRes'.outcome = "all_exhausted"
           /\ OneFullScan(poolRes'.visited, currentKeyIndex) ) ]_vars

\* C4 witness: a pool of the largest size, cursor on its last credential,
\* scanned once around and found exhausted throughout.
C4_Witness ==
  /\ poolRes.op = "acquire"
  /\ poolRes.outcome = "all_exhausted"
  /\ keys = MaxKeys
  /\ poolRes.startIndex = MaxKeys - 1
  /\ OneFullScan(poolRes.visited, poolRes.startIndex)
  /\ \A k \in Keys : keyStatuses[k].status = "exhausted"

\* The keys of a sequence of keys.
Range(seq) == { seq[i] : i \in DOMAIN seq }

\* getAvailableKey() called again at once, in the state the step leaves.
SecondPass ==
  scanKeys(currentKeyIndex', 0, keyStatuses', <<>>, <<>>, currentKeyIndex')

\* C11: when a call of getAvailableKey has fetched the status of a
\* credential from upstream (and the fetch did not fail), a second call
\* made at once, well within the 60 s window, does not fetch it again and
\* leaves its cached status as it is.
C11_OneCallPerWindow ==
  [][ IsAcquireStep =>
        \A k \in Range(poolRes'.calls) :
           upstream[k].code # 500 =>
              /\ k \notin Range(SecondPass.calls)
              /\ SecondPass.st[k] = keyStatuses'[k] ]_vars


\* C12: the credential getAvailableKey returns is active and under its
\* limit by its most recent health check: by the upstream answer when the
\* call refreshed it (never one that answered 401, 429 or used >= limit),
\* by the cached status otherwise.
C12_ReturnsOnlyActive ==
  [][ (IsAcquireStep /\ poolRes'.outcome = "key") =>
        LET k == poolRes'.key IN
          /\ k \in Range(poolRes'.calls) => Classify(upstream[k]) = "active"
          /\ k \notin Range(poolRes'.calls) =>
               /\ keyStatuses[k] # NoStatus
               /\ keyStatuses[k].status = "active"
               /\ ~keyStatuses[k].isOverLimit ]_vars


\* The cursor has moved on by one.
CursorAdvanced == currentKeyIndex' = (currentKeyIndex + 1) % keys

\* C13: handleAPIError(429, k) leaves k marked rate_limited and the cursor
\* advanced by one; handleAPIError(401, k) leaves k marked invalid and the
\* cursor advanced by one; handleAPIError(402 or 403, k) fetches k's status
\* from upstream and (the fetch not failing) advances the cursor by one.
C13_ReportFailureEffects ==
  [][ \A k \in Keys :
        /\ handleAPIError(429, k) =>
             /\ keyStatuses'[k] # NoStatus
             /\ keyStatuses'[k].status = "rate_limited"
             /\ CursorAdvanced
        /\ handleAPIError(401, k) =>
             /\ keyStatuses'[k] # NoStatus
             /\ keyStatuses'[k].status = "invalid"
             /\ CursorAdvanced
        /\ \A code \in {402, 403} :
             (handleAPIError(code, k) /\ upstream[k].code # 500) =>
                /\ k \in Range(poolRes'.calls)
                /\ CursorAdvanced ]_vars


\* The cached status st is what spec 4.2 makes of the upstream answer a.
\* near-limit is the status active with isNearLimit set.
Matches(st, a) ==
  /\ st # NoStatus
  /\ a.code = 401 => st.status = "invalid"
  /\ a.code = 429 => st.status = "rate_limited"
  /\ a.code = 200 =>
       /\ IF a.character_count >= a.character_limit
          THEN st.status = "exhausted"
          ELSE /\ st.status = "active"
               /\ st.isNearLimit <=>
                    (10 * a.character_count >= 8 * a.character_limit)
       /\ st.remainingCharacters =
            (IF a.character_limit > a.character_count
             THEN a.character_limit - a.character_count ELSE 0)

\* C14: after every pool operation, the status of each credential whose
\* health was fetched during it (the fetch not failing) is the
\* classification of the upstream answer: 401 invalid, 429 rate_limited
\* whether or not a status was cached, 200 exhausted / near-limit / active
\* with remaining = max(0, limit - used).
C14_RefreshClassifies ==
  [][ poolOps' = poolOps + 1 =>
        \A k \in Range(poolRes'.calls) :
           upstream[k].code # 500 => Matches(keyStatuses'[k], upstream[k])
    ]_vars


\* Credential j can be handed out in the state a step leaves: upstream
\* calls it active and nothing cached says otherwise.
UsableAfter(j) ==
  /\ Classify(upstream[j]) = "active"
  /\ \/ keyStatuses'[j] = NoStatus
     \/ keyStatuses'[j].status = "active" /\ ~keyStatuses'[j].isOverLimit

\* C15: when text-to-speech has rejected the pooled credential of a
\* synthesis request with 401, 402, 403 or 429, and another credential is
\* usable, the next getAvailableKey() does not hand out the rejected one.
C15_RejectionFailsOver ==
  [][ ( /\ poolOps' = poolOps + 1
        /\ synthesis'.endpoint = "preview"
        /\ synthesis'.upstreamStatus \in {401, 402, 403, 429}
        /\ \E j \in Keys \ {synthesis'.key} : UsableAfter(j) )
      => ( SecondPass.outcome = "key" => SecondPass.key # synthesis'.key )
    ]_vars

\* C16: a synthesis request for which getAvailableKey() found no usable
\* credential is answered 503, without any text-to-speech call and without
\* naming a credential.
C16_PoolExhausted503 ==
  synthesis.acquire = "all_exhausted" =>
     /\ synthesis.status = 503
     /\ synthesis.upstreamCalls = 0
     /\ synthesis.key = NoKey


(***************************************************************************)
(* C26: during acquire(), every candidate visited whose cached health is   *)
(* older than the cache window is refreshed against upstream, whatever     *)
(* state the cache holds for it.                                           *)
(***************************************************************************)
IsStaleEntry(k) == keyStatuses[k] # NoStatus /\ isStale(keyStatuses[k])

C26_StaleAlwaysRefreshed ==
  [][ IsAcquireStep =>
        \A k \in Range(poolRes'.visited) :
           IsStaleEntry(k) => k \in Range(poolRes'.calls) ]_vars

\* What the code does do: stale entries cached as active are refreshed.
StaleActiveRefreshed ==
  [][ IsAcquireStep =>
        \A k \in Range(poolRes'.visited) :
           (IsStaleEntry(k) /\ keyStatuses[k].status = "active"
              /\ ~keyStatuses[k].isOverLimit)
             => k \in Range(poolRes'.calls) ]_vars

(***************************************************************************)
(* C27: a status call that fails for one candidate does not end the scan:  *)
(* acquire() does not pass the failure on, and it returns a key whenever   *)
(* the pool holds a credential it has never checked that upstream reports  *)
(* as active.                                                              *)
(***************************************************************************)
UncheckedActive(k) ==
  keyStatuses[k] = NoStatus /\ Classify(upstream[k]) = "active"

C27_RefreshFailureSkipped ==
  [][ IsAcquireStep =>
        /\ poolRes'.outcome # "threw"
        /\ (\E k \in Keys : UncheckedActive(k)) => poolRes'.outcome = "key"
    ]_vars

\* The same without failing status calls.
UncheckedActiveFound ==
  [][ ( /\ IsAcquireStep
        /\ \A k \in Keys : upstream[k].code # 500
        /\ \E k \in Keys : UncheckedActive(k) )
      => poolRes'.outcome = "key" ]_vars

(***************************************************************************)
(* C28: when acquire() returns credential k the cursor is on k, and the    *)
(* acquire() that follows it, with no failure reported in between and k    *)
(* still usable, returns k again and examines and refreshes no other       *)
(* credential.                                                             *)
(***************************************************************************)
LastAcquired ==
  poolRes.op = "acquire" /\ poolRes.outcome = "key"

StickyCase ==
  /\ IsAcquireStep
  /\ LastAcquired
  /\ Health(poolRes.key) = "active"

C28_StickySelection ==
  [][ /\ (IsAcquireStep /\ poolRes'.outcome = "key") =>
            currentKeyIndex' = poolRes'.key
      /\ StickyCase =>
            /\ poolRes'.outcome = "key"
            /\ poolRes'.key = poolRes.key
            /\ poolRes'.visited = <<poolRes.key>>
            /\ Range(poolRes'.calls) \subseteq {poolRes.key} ]_vars

\* C28 witness: the second operation on a pool of several credentials
\* was an acquire() that started on the cursor's credential, found it in
\* the cache, refreshed it and returned it without looking further.
C28_Witness ==
  /\ keys >= 2
  /\ poolOps = 2
  /\ LastAcquired
  /\ currentKeyIndex = poolRes.key
  /\ poolRes.startIndex = poolRes.key
  /\ poolRes.visited = <<poolRes.key>>
  /\ poolRes.calls = <<poolRes.key>>
  /\ keyStatuses[poolRes.key].lastChecked = now
  /\ now > CacheWindowMs
  /\ \E k \in Keys : k # poolRes.key /\ Classify(upstream[k]) = "active"

\* The sticky case does occur: no behaviour avoids it.
StickyCaseNever == [][ ~StickyCase ]_vars

(***************************************************************************)
(* C29: reporting a failure with a status other than 401, 402, 403 and 429 *)
(* changes nothing of the pool: the cursor, the health cache and the       *)
(* credential list are as they were before the call.                       *)
(***************************************************************************)
IsReportStep == poolOps' = poolOps + 1 /\ poolRes'.op = "report"

NamedStatuses == {401, 402, 403, 429}

C29_OtherStatusNoChange ==
  [][ (IsReportStep /\ poolRes'.code \notin NamedStatuses) =>
        /\ currentKeyIndex' = currentKeyIndex
        /\ keyStatuses' = keyStatuses
        /\ keys' = keys ]_vars

\* C29 witness: an unnamed status was reported for a credential of a pool
\* of several credentials whose cursor is off the first one and whose cache
\* holds an entry.
C29_Witness ==
  /\ poolRes.op = "report"
  /\ poolRes.code \notin NamedStatuses
  /\ keys >= 2
  /\ currentKeyIndex # 0
  /\ currentKeyIndex = poolRes.startIndex
  /\ keyStatuses[poolRes.key] # NoStatus

(***************************************************************************)
(* C40: after any sequence of acquire() and reportFailure() calls on a     *)
(* pool of one or more credentials the cursor is an index of the list,     *)
(* also after a report on a pool of one credential, and the list of        *)
(* credentials is the one the pool was built with.                         *)
(***************************************************************************)
CursorValid == currentKeyIndex \in Keys

ListUnchanged == [][ keys' = keys ]_vars

C40_CursorValid == []CursorValid /\ ListUnchanged

\* C40 witness: a failure that rotates was reported on a pool of one
\* credential; the cursor is still on it.
C40_Witness ==
  /\ keys = 1
  /\ poolRes.op = "report"
  /\ poolRes.code \in {401, 402, 403, 429}
  /\ poolRes.outcome = "ok"
  /\ currentKeyIndex = 0

\* The cursor went round a pool of two credentials in two reports.
C40_WitnessWrap ==
  /\ keys = 2
  /\ poolOps = 2
  /\ poolRes.op = "report"
  /\ poolRes.startIndex = 1
  /\ currentKeyIndex = 0

(***************************************************************************)
(* Claims about the admission gate.                                        *)
(***************************************************************************)
Category(p) == IF req[p].isVoiceMode THEN "voice" ELSE "text"

Count(row, category) ==
  IF category = "voice" THEN row.voice_sessions_count
  ELSE row.text_sessions_count

LimitOf(p) == IF req[p].isVoiceMode THEN req[p].voiceLimit ELSE TEXT_LIMIT

Called(p) == pc[p] # "idle"

Returned(p) == pc[p] = "done"

IsBanned(p) ==
  req[p].deviceId \in BANNED_DEVICES \/ req[p].userId \in BANNED_USERS

IsExempt(p) == req[p].promptType \in exemptPromptTypes

\* The request went through the quota check: neither banned nor exempt.
Metered(p) == Called(p) /\ ~IsBanned(p) /\ ~IsExempt(p)

\* The request is admitted and is one the gate counts: the gateway's
\* own-key voice bypass returns before the counter update.
AdmittedAndCounted(p) ==
  /\ Returned(p) /\ Metered(p)
  /\ rateLimitResult[p].allowed = TRUE
  /\ ~(req[p].gate = "gateway" /\ req[p].isVoiceMode
       /\ req[p].hasElevenLabsKey)

CountedIn(category) ==
  Cardinality({p \in Reqs : AdmittedAndCounted(p) /\ Category(p) = category})

AdmittedIn(category) ==
  Cardinality({p \in Reqs : /\ Returned(p) /\ Metered(p)
                            /\ rateLimitResult[p].allowed = TRUE
                            /\ Category(p) = category})

\* C1: concurrent admission checks on one usage_limits row lose no
\* increment and admit no more than the limit: once all requests have
\* returned (no store call failed, no reset fell due), each counter is its
\* value before plus the number of requests admitted and counted, and on
\* an identity without bypass the text requests admitted in the window
\* are at most TEXT_LIMIT.
C1_AtomicIncrement ==
  ( /\ \A p \in Reqs : Returned(p)
    /\ usage0 # NoRow
    /\ storeFailures = 0
    /\ clock < usage0.reset_at )
  => /\ usage.voice_sessions_count
          = usage0.voice_sessions_count + CountedIn("voice")
     /\ usage.text_sessions_count
          = usage0.text_sessions_count + CountedIn("text")
     /\ usage0.text_sessions_count <= TEXT_LIMIT
          => usage0.text_sessions_count + AdmittedIn("text") <= TEXT_LIMIT

\* C9: the first request of an identity that has no quota record and is
\* not banned (a metered request, served by the store) is admitted and
\* leaves a record with 1 in the counter of its category and 0 in the
\* other.
C9_FirstRequestCounted ==
  \A p \in Reqs :
    ( /\ usage0 = NoRow
      /\ Returned(p) /\ Metered(p)
      /\ ~req[p].storeError
      /\ \A q \in Reqs \ {p} : ~Called(q) )
    => /\ rateLimitResult[p].allowed = TRUE
       /\ usage # NoRow
       /\ usage.voice_sessions_count = (IF req[p].isVoiceMode THEN 1 ELSE 0)
       /\ usage.text_sessions_count = (IF req[p].isVoiceMode THEN 0 ELSE 1)

\* The identity has no bypass: neither the request nor the stored record
\* carries the own-key flag.
NoBypass(p, row) == ~req[p].hasElevenLabsKey /\ ~row.has_elevenlabs_key

\* The requests other than p have written nothing: not called, or refused
\* by the limit test (a request refused because a store call threw may
\* have written a reset before).
OthersWroteNothing(p) ==
  \A q \in Reqs \ {p} :
    \/ ~Called(q)
    \/ Returned(q) /\ rateLimitResult[q].allowed = FALSE
                   /\ ~req[q].storeError

\* C10 (first half): a metered request that finds its category's counter
\* at or above the limit before the stored reset time is denied with used
\* and max reported, and the record is left as it was.
DeniedAtLimit(p) ==
  ( /\ pc[p] \in {"select", "hselect"}
    /\ pc'[p] # pc[p]
    /\ ~req'[p].storeError
    /\ usage # NoRow
    /\ NoBypass(p, usage)
    /\ Count(usage, Category(p)) >= LimitOf(p)
    /\ clock < usage.reset_at )
  => /\ rateLimitResult'[p] = Denied(Category(p), Count(usage, Category(p)),
                                     LimitOf(p))
     /\ pc'[p] = "done"
     /\ usage' = usage

\* C10 (second half): the first request arriving at or after the stored
\* reset time is admitted and leaves 1 in its category's counter, 0 in the
\* other and a reset time that lies after its arrival.
AdmittedAfterReset(p) ==
  ( /\ pc[p] # "done" /\ pc'[p] = "done"
    /\ Metered(p)
    /\ ~req'[p].storeError
    /\ OthersWroteNothing(p)
    /\ usage0 # NoRow
    /\ NoBypass(p, usage0)
    /\ Count(usage0, Category(p)) >= LimitOf(p)
    /\ req[p].at >= usage0.reset_at )
  => /\ rateLimitResult'[p].allowed = TRUE
     /\ usage'.voice_sessions_count = (IF req[p].isVoiceMode THEN 1 ELSE 0)
     /\ usage'.text_sessions_count = (IF req[p].isVoiceMode THEN 0 ELSE 1)
     /\ usage'.reset_at > req[p].at
     /\ usage'.reset_at > usage0.reset_at

C10_DenyUntilReset ==
  [][ \A p \in Reqs : DeniedAtLimit(p) /\ AdmittedAfterReset(p) ]_vars

\* C10 witness: of two requests of one category on a record at its limit,
\* the one arriving before the reset time was denied, the one arriving
\* after it was admitted and the counters restarted.
C10_Witness ==
  /\ usage0 # NoRow
  /\ \E p, q \in Reqs :
       /\ p # q /\ Returned(p) /\ Returned(q)
       /\ Metered(p) /\ Metered(q)
       /\ Category(p) = Category(q)
       /\ req[p].gate = "gateway" /\ req[q].gate = "gateway"
       /\ NoBypass(p, usage0) /\ NoBypass(q, usage0)
       /\ Count(usage0, Category(p)) >= LimitOf(p)
       /\ req[p].at < usage0.reset_at
       /\ rateLimitResult[p] = Denied(Category(p),
                                      Count(usage0, Category(p)), LimitOf(p))
       /\ req[q].at >= usage0.reset_at
       /\ rateLimitResult[q].allowed = TRUE
       /\ Count(usage, Category(q)) = 1
       /\ usage.reset_at > req[q].at

(***************************************************************************)
(* Claims about the request orchestrator.                                  *)
(***************************************************************************)
\* The request of the handler names a banned device or a banned user.
BodyIsBanned ==
  /\ body # NoBody
  /\ \/ body.deviceId \in BANNED_DEVICES
     \/ body.userId \in BANNED_USERS

\* C2: a request with a message and a device id whose device or user is on
\* a ban list is never admitted, whether or not it carries userApiKey: it
\* is answered 403 and no call to the model provider is made for it.
C2_BanBeforeBypass ==
  (BodyIsBanned /\ body.message /\ body.deviceId # "") =>
     /\ hpc \in {"gate", "rejected"}
     /\ hpc = "rejected" => httpStatus = 403
     /\ upstreamCalls = 0

(***************************************************************************)
(* Claims about the streaming normalizer.                                  *)
(***************************************************************************)
\* The decode loop is running.
LoopRunning == hpc \in {"top", "read"}

\* C5: once onChunk has returned false, that call is the last callback
\* invocation ever made, the reader has been cancelled, the normalizer has
\* returned without throwing, and the session is flagged aborted (both
\* provider families).
C5_CancelOnFalse ==
  \A i \in DOMAIN calls :
     calls[i].ret = FALSE =>
        /\ i = Len(calls)
        /\ readerCancelled
        /\ hpc \in {"returned", "ended"}
        /\ error = "none"
        /\ streamAborted

\* onChunk returned false on the second of MaxText text deltas, the other
\* deltas having been read in the same batch.
C5_Witness ==
  /\ body.provider = "openai"
  /\ Len(script) = MaxText + 1
  /\ Len(calls) = 2
  /\ calls[1].ret = TRUE
  /\ calls[2].ret = FALSE
  /\ wire = <<>>
  /\ hpc = "returned"

\* C6: whenever the decode loop is running with the 280 s budget exceeded,
\* it stops running (the loop's own steps being taken whenever they can
\* be, whatever the provider does).
C6_BudgetEnforced ==
  (LoopRunning /\ elapsed > streamTimeout) ~> ~LoopRunning

\* A family-A stream of one tool call: the name once, then argument
\* fragments only, then finish_reason "tool_calls", then [DONE].
IsReassemblyScript(s) ==
  /\ Len(s) >= 4
  /\ s[1].kind = "chunk" /\ s[1].text = <<>> /\ Len(s[1].tool_calls) = 1
  /\ s[1].tool_calls[1].name # "" /\ s[1].finish_reason = "null"
  /\ \A i \in 2 .. (Len(s) - 2) :
        /\ s[i].kind = "chunk" /\ s[i].text = <<>>
        /\ s[i].finish_reason = "null"
        /\ Len(s[i].tool_calls) = 1
        /\ s[i].tool_calls[1].name = ""
        /\ s[i].tool_calls[1].index = s[1].tool_calls[1].index
  /\ s[Len(s) - 1] = Delta(<<>>, <<>>, "tool_calls")
  /\ s[Len(s)] = DoneSentinel

\* The argument fragments of frames i .. Len(s), concatenated.
RECURSIVE ConcatArguments(_, _)
ConcatArguments(s, i) ==
  IF i > Len(s) THEN <<>>
  ELSE (IF s[i].tool_calls = <<>> THEN <<>>
        ELSE s[i].tool_calls[1].arguments) \o ConcatArguments(s, i + 1)

\* The loop has returned after reading the whole stream.
ReturnedAtEnd == hpc \in {"returned", "ended"} /\ error = "none" /\ wire = <<>>

\* C7: when the loop has returned from such a stream whose concatenated
\* fragments are valid JSON, onToolInvocation was called exactly once, with
\* the tool's name and the parse of the concatenation, no other callback
\* was called, and the accumulator is empty.
C7_ToolCallReassembled ==
  ( /\ body.provider = "openai"
    /\ IsReassemblyScript(script)
    /\ ParseJSON(ConcatArguments(script, 1)).ok
    /\ ReturnedAtEnd ) =>
     /\ calls = << Call("onToolInvocation", <<>>,
                        [toolName |-> script[1].tool_calls[1].name,
                         arguments |->
                            ParseJSON(ConcatArguments(script, 1)).value,
                         id |-> "generated"], TRUE) >>
     /\ accumulatedToolCall = NoToolCall
     /\ toolCallIndex = -1

\* A tool call in MaxFrag fragments was reassembled, read in several reads.
C7_Witness ==
  /\ body.provider = "openai"
  /\ IsReassemblyScript(script)
  /\ Len(script) = MaxFrag + 3
  /\ hpc = "returned"
  /\ Len(calls) = 1
  /\ Len(calls[1].invocation.arguments) = MaxFrag - 2

\* A family-A stream of text deltas followed by [DONE].
IsTextScript(s) ==
  /\ Len(s) >= 2
  /\ \A i \in 1 .. (Len(s) - 1) :
        /\ s[i].kind = "chunk" /\ s[i].tool_calls = <<>>
        /\ s[i].finish_reason \in {"null", "stop"}
  /\ s[Len(s)] = DoneSentinel

\* The non-empty text fragments of frames i .. Len(s), in order.
RECURSIVE TextFragments(_, _)
TextFragments(s, i) ==
  IF i > Len(s) THEN <<>>
  ELSE (IF s[i].text = <<>> THEN <<>> ELSE <<s[i].text>>)
       \o TextFragments(s, i + 1)

RECURSIVE Concat(_)
Concat(strs) == IF strs = <<>> THEN <<>> ELSE Head(strs) \o Concat(Tail(strs))

\* C8: when the loop has returned from such a stream with the client still
\* connected, the onChunk calls carry exactly the text fragments in order
\* (their concatenation, and responseChunks joined, is the upstream text),
\* no other callback was called, nothing was thrown, and the session is
\* not aborted.
C8_TextRoundTrip ==
  ( /\ body.provider = "openai"
    /\ IsTextScript(script)
    /\ hpc \in {"returned", "ended"}
    /\ error = "none"
    /\ isClientConnected ) =>
     /\ calls = [i \in 1 .. Len(TextFragments(script, 1)) |->
                   Call("onChunk", TextFragments(script, 1)[i],
                        NoInvocation, TRUE)]
     /\ Concat(responseChunks) = Concat([i \in 1 .. Len(script) |->
                                           script[i].text])
     /\ ~streamAborted
     /\ ~readerCancelled
     /\ \A i \in DOMAIN written : written[i].event \in {"chunk", "[DONE]"}

\* Three text deltas and [DONE] were decoded for a connected client.
C8_Witness ==
  /\ body.provider = "openai"
  /\ IsTextScript(script)
  /\ Len(script) = 4
  /\ hpc = "returned"
  /\ isClientConnected
  /\ Len(calls) = 3

(***************************************************************************)
(* C17: a request the gate denies is answered once, 403 for a ban and 429  *)
(* with the gate's limitType, used and max for a quota, and the answer is  *)
(* final: no telemetry record, no SSE header or frame, no upstream call,   *)
(* then or later.                                                          *)
(***************************************************************************)
GateDenied ==
  hpc = "gate" /\ hpc' # "gate" /\ ~rateLimitResult[1].allowed

RejectionOf(result) ==
  IF result.banned THEN [NoJson EXCEPT !.error = "Access denied"]
  ELSE [error |-> IF result.limitType = "voice"
                  THEN "Voice session limit reached"
                  ELSE "Text session limit reached",
        limitType |-> result.limitType, used |-> result.used,
        max |-> result.max]

NothingStarted ==
  /\ telemetry = <<>>
  /\ written = <<>>
  /\ upstreamCalls = 0
  /\ calls = <<>>

C17_DeniedBeforeUpstream ==
  [][ /\ GateDenied =>
           /\ hpc' = "rejected"
           /\ httpStatus' = IF rateLimitResult[1].banned THEN 403 ELSE 429
           /\ responseJson' = RejectionOf(rateLimitResult[1])
           /\ NothingStarted'
      /\ hpc = "rejected" =>
           UNCHANGED <<hpc, httpStatus, responseJson, telemetry, written,
                       upstreamCalls, calls>> ]_vars

C17_Witness ==
  /\ hpc = "rejected"
  /\ httpStatus = 429
  /\ responseJson.limitType = "text"
  /\ responseJson.used = TEXT_LIMIT
  /\ responseJson.max = TEXT_LIMIT
  /\ NothingStarted

(***************************************************************************)
(* C18: a response that was admitted and whose caller is still connected  *)
(* ends with one terminal frame, the completion event when the normalizer  *)
(* returned and one error event when it threw; a terminal frame is the     *)
(* last frame written, so a response never carries two of them and         *)
(* nothing follows it.                                                     *)
(***************************************************************************)
DoneFrame == Written("[DONE]", <<>>, NoInvocation)

IsTerminal(w) == w.event \in {"[DONE]", "error"}

TerminalIsLast ==
  \A i \in 1 .. Len(written) : IsTerminal(written[i]) => i = Len(written)

C18_OneTerminalFrame ==
  /\ [] TerminalIsLast
  /\ [][ /\ (hpc = "returned" /\ hpc' = "ended" /\ isClientConnected) =>
             written' = Append(written, DoneFrame)
         /\ (hpc = "threw" /\ hpc' = "ended") =>
             /\ Len(written') = Len(written) + 1
             /\ written'[Len(written')].event = "error"
             /\ SubSeq(written', 1, Len(written)) = written
         /\ hpc = "ended" => written' = written ]_vars

C18_Witness ==
  /\ hpc = "ended"
  /\ isClientConnected
  /\ Len(written) >= 2
  /\ written[Len(written)] = DoneFrame
  /\ written[1].event = "chunk"

C18_WitnessError ==
  /\ hpc = "ended"
  /\ isClientConnected
  /\ Len(written) >= 2
  /\ written[Len(written)].event = "error"
  /\ written[1].event = "chunk"

(***************************************************************************)
(* C19: the chunk and toolInvocation frames the caller receives are, in    *)
(* order, the text deltas of the upstream frames and the tool calls at     *)
(* their boundary frames: always a prefix of them, and all of them once    *)
(* the stream has been read to its end with the caller connected.          *)
(***************************************************************************)
IsText(f) == f.kind \in {"chunk", "text_delta"} /\ f.text # <<>>

IsBoundary(f) ==
  \/ f.kind = "chunk" /\ f.finish_reason = "tool_calls"
  \/ f.kind = "content_block_stop"

\* The tool named by frame f, or the one named before it.
RECURSIVE NamedIn(_, _)
NamedIn(tool_calls, pending) ==
  IF tool_calls = <<>> THEN pending
  ELSE NamedIn(Tail(tool_calls),
               IF Head(tool_calls).name # "" THEN Head(tool_calls).name
               ELSE pending)

Named(f, pending) ==
  IF f.kind = "tool_use_start" THEN f.name
  ELSE IF f.kind = "chunk" THEN NamedIn(f.tool_calls, pending)
  ELSE pending

Event(kind, text, toolName) ==
  [kind |-> kind, text |-> text, toolName |-> toolName]

RECURSIVE UpstreamEvents(_, _)
UpstreamEvents(frames, pending) ==
  IF frames = <<>> THEN <<>>
  ELSE
    LET f == Head(frames)
        name == Named(f, pending)
        closes == IsBoundary(f) /\ name # ""
    IN (IF IsText(f) THEN <<Event("chunk", f.text, "")>> ELSE <<>>)
       \o (IF closes THEN <<Event("toolInvocation", <<>>, name)>> ELSE <<>>)
       \o UpstreamEvents(Tail(frames), IF closes THEN "" ELSE name)

Delivered ==
  LET frames == SelectSeq(written, LAMBDA w : ~IsTerminal(w))
  IN [i \in 1 .. Len(frames) |->
        Event(frames[i].event, frames[i].chunk,
              frames[i].invocation.toolName)]

IsPrefix(s, t) == Len(s) <= Len(t) /\ SubSeq(t, 1, Len(s)) = s

ReadToEnd ==
  hpc \in {"returned", "ended"} /\ isClientConnected /\ error = "none"

C19_UpstreamOrder ==
  /\ IsPrefix(Delivered, UpstreamEvents(script, ""))
  /\ ReadToEnd => Delivered = UpstreamEvents(script, "")

C19_Witness ==
  /\ ReadToEnd
  /\ Len(Delivered) = 3
  /\ Delivered[1].kind = "chunk"
  /\ Delivered[2].kind = "toolInvocation"
  /\ Delivered[3].kind = "chunk"

(***************************************************************************)
(* C20: a data line that is not JSON, or is JSON of neither family's       *)
(* shape, is passed over: handling it leaves the accumulator, the events   *)
(* so far and the loop itself as they were, and a stream read to its end   *)
(* has produced the callbacks and frames of the same stream without the    *)
(* bad lines, with nothing left in the buffer.                             *)
(***************************************************************************)
BadFrames == {Garbled, Unrecognized}

HasBadFrame == \E i \in 1 .. Len(script) : script[i] \in BadFrames

WithoutBadFrames(frames) ==
  SelectSeq(frames, LAMBDA f : f \notin BadFrames)

LineOf(f) == split(Serialize(f), <<>>, <<>>)[1]

FreshLoop ==
  [acc |-> NoToolCall, toolCallIndex |-> -1, calls |-> <<>>,
   written |-> <<>>, responseChunks |-> <<>>, streamAborted |-> FALSE,
   readerCancelled |-> FALSE, ret |-> TRUE, returned |-> FALSE]

\* The decode loop fed the whole of frames in one read.
RunAll(provider, frames) ==
  processLines(provider, FreshLoop,
               split(SerializeAll(frames), <<>>, <<>>))

BadLineChangesNothing ==
  hpc \in {"top", "read"} =>
     \A f \in BadFrames :
        processLines(body.provider, LoopState, <<LineOf(f)>>) = LoopState

SameAsWithout ==
  (ReadToEnd /\ HasBadFrame) =>
     LET clean == RunAll(body.provider, WithoutBadFrames(script))
     IN /\ calls = clean.calls
        /\ SelectSeq(written, LAMBDA w : ~IsTerminal(w)) = clean.written
        /\ responseChunks = clean.responseChunks
        /\ accumulatedToolCall = clean.acc
        /\ buffer = <<>>

C20_BadFrameSkipped == BadLineChangesNothing /\ SameAsWithout

C20_Witness ==
  /\ ReadToEnd
  /\ HasBadFrame
  /\ Len(calls) = 3
  /\ calls[2].cb = "onToolInvocation"
  /\ calls[2].invocation.arguments = <<"b">>

(***************************************************************************)
(* C21: a gateway request with no device identifier and no own provider   *)
(* key is answered 400 with no quota row read or written and no provider   *)
(* call; a request with its own provider key reads and writes no quota     *)
(* row.                                                                    *)
(***************************************************************************)
AgNoStoreCall == agReads = 0 /\ agWrites = 0

C21_DeviceIdRequired ==
  agPc # "idle" =>
    /\ (agBody.message /\ ~agBody.userApiKey /\ agBody.deviceId = "") =>
          /\ agPc = "rejected"
          /\ agStatus = 400
          /\ AgNoStoreCall
          /\ agUpstreamCalls = 0
    /\ (agBody.message /\ agBody.userApiKey) => AgNoStoreCall

\* The same statement for the streaming gateway.
DeviceIdRequiredStreaming ==
  hpc # "idle" =>
    /\ (body.message /\ ~body.userApiKey /\ body.deviceId = "") =>
          /\ hpc = "rejected"
          /\ httpStatus = 400
          /\ pc[1] = "idle"
          /\ usage = usage0
          /\ upstreamCalls = 0
    /\ (body.message /\ body.userApiKey) =>
          pc[1] = "idle" /\ usage = usage0

\* The own-key half of C21 alone, for ai-gateway.ts.
AgOwnKeyBypasses ==
  (agPc # "idle" /\ agBody.message /\ agBody.userApiKey) =>
     AgNoStoreCall /\ agPc \in {"admitted", "served"}

(***************************************************************************)
(* C22: a voice request of an identity flagged as having its own voice     *)
(* credential is admitted whatever the voice counter says, and the voice   *)
(* counter is one more than before (one request, the store working, no     *)
(* reset due).                                                             *)
(***************************************************************************)
\* The flag each gate looks at: the request's (part_001:675), the stored
\* record's (hume-tts.ts:95).
OwnsCredential(p) ==
  IF req[p].gate = "gateway" THEN req[p].hasElevenLabsKey
  ELSE usage0.has_elevenlabs_key

BypassCase(p) ==
  /\ Returned(p) /\ Metered(p)
  /\ req[p].isVoiceMode
  /\ usage0 # NoRow
  /\ OwnsCredential(p)
  /\ ~req[p].storeError
  /\ clock < usage0.reset_at
  /\ \A q \in Reqs \ {p} : ~Called(q)

BypassCounts(p) ==
  BypassCase(p) =>
    /\ rateLimitResult[p].allowed = TRUE
    /\ usage.voice_sessions_count = usage0.voice_sessions_count + 1
    /\ usage.text_sessions_count = usage0.text_sessions_count

C22_BypassStillCounts == \A p \in Reqs : BypassCounts(p)

\* The same for the voice proxy's gate alone.
HumeBypassStillCounts ==
  \A p \in Reqs : req[p].gate = "hume" => BypassCounts(p)

\* The admission half alone, for both gates.
BypassAlwaysAllows ==
  \A p \in Reqs : BypassCase(p) => rateLimitResult[p].allowed = TRUE

HumeBypassAtLimit ==
  \E p \in Reqs :
    /\ req[p].gate = "hume" /\ BypassCase(p)
    /\ usage0.voice_sessions_count >= req[p].voiceLimit

(***************************************************************************)
(* C23: in the streaming gateway's gate, a request that met an error of    *)
(* the quota store (at the lookup, the creation of the record, the daily   *)
(* reset or the increment) is denied.                                      *)
(***************************************************************************)
C23_StoreErrorDenies ==
  \A p \in Reqs :
    (Returned(p) /\ req[p].gate = "gateway" /\ req[p].storeError)
      => rateLimitResult[p].allowed = FALSE

\* The store call threw: the catch block denies.
ThrownErrorDenies ==
  [][ \A p \in Reqs :
        GwThrow(p) => rateLimitResult'[p] = Denied("text", 0, TEXT_LIMIT)
    ]_vars

(***************************************************************************)
(* C24: what the caller sees after a step that writes telemetry (the       *)
(* status line, the frames, whether the response goes on or ends) is the   *)
(* same whether the telemetry row was written or the write failed.         *)
(***************************************************************************)
TelemetryStep == hpc \in {"admitted", "returned", "threw"} /\ hpc' # hpc

TelemetryFailed == TelemetryStep /\ telemetry' = telemetry

TelemetryWritten == TelemetryStep /\ telemetry' # telemetry

\* The caller-visible part of the state, and where the response is.
Visible == <<httpStatus, responseJson, written, hpc, error>>

\* The caller-visible result of the three steps that write telemetry.
VisibleAfter ==
  IF hpc = "admitted"
  THEN <<200, responseJson, written,
         IF body.provider \in {"openai", "anthropic"} THEN "fetch"
         ELSE "returned", error>>
  ELSE IF hpc = "returned"
  THEN <<httpStatus, responseJson,
         IF isClientConnected /\ ~streamAborted
         THEN Append(written, DoneFrame) ELSE written,
         "ended", error>>
  ELSE <<httpStatus, responseJson,
         Append(written, Written("error", <<error>>, NoInvocation)),
         "ended", error>>

C24_TelemetryInvisible ==
  [][ /\ TelemetryFailed => Visible' = VisibleAfter
      /\ TelemetryWritten => Visible' = VisibleAfter ]_vars

\* A response that streamed and ended with [DONE] although both telemetry
\* writes failed.
C24_Witness ==
  /\ hpc = "ended"
  /\ httpStatus = 200
  /\ telemetry = <<>>
  /\ Len(written) = 2
  /\ written[2] = DoneFrame

\* The same response with both rows written.
C24_WitnessLogged ==
  /\ hpc = "ended"
  /\ httpStatus = 200
  /\ telemetry = <<AiUsage("request", FALSE), AiUsage("response", FALSE)>>
  /\ Len(written) = 2
  /\ written[2] = DoneFrame

(***************************************************************************)
(* C25: a voice-proxy request whose device or user is banned is refused    *)
(* before the quota record is touched and before any synthesis call.       *)
(***************************************************************************)
VpIsBanned ==
  vpBody.deviceId \in BANNED_DEVICES \/ vpBody.userId \in BANNED_USERS

C25_VoiceProxyBanFirst ==
  (vpPc # "idle" /\ vpBody.valid /\ VpIsBanned) =>
     /\ vpPc = "rejected"
     /\ pc[1] = "idle"
     /\ usage = usage0
     /\ vpUpstreamCalls = 0

\* What the voice proxy does do: a request refused by the quota is
\* answered 429 without a synthesis call.
VpDeniedBeforeUpstream ==
  (vpPc \in {"rejected", "done"} /\ vpBody.valid /\ vpBody.deviceId # ""
     /\ rateLimitResult[1].allowed = FALSE) =>
     vpStatus = 429 /\ vpUpstreamCalls = 0

\* A banned device was served a synthesis call and counted.
VpBannedServed ==
  /\ vpPc = "done"
  /\ vpBody.deviceId \in BANNED_DEVICES
  /\ vpStatus = 200
  /\ vpUpstreamCalls = 1
  /\ usage # usage0

(***************************************************************************)
(* C30: the accumulator is finalized at a call boundary or at the end of   *)
(* the stream and nowhere else, and it is empty right after the boundary   *)
(* and once the stream has been read to its end, whether or not the        *)
(* buffered arguments parsed: no buffer that failed to parse is kept.      *)
(***************************************************************************)
BoundaryFrame(provider) ==
  IF provider = "openai" THEN Delta(<<>>, <<>>, "tool_calls")
  ELSE ContentBlockStop

ToolCalls(cs) == SelectSeq(cs, LAMBDA c : c.cb = "onToolInvocation")

AfterLine(f) == processLines(body.provider, LoopState, <<LineOf(f)>>)

InLoop == hpc \in {"top", "read"} /\ body.provider \in {"openai", "anthropic"}

BoundaryEmpties ==
  InLoop => AfterLine(BoundaryFrame(body.provider)).acc = NoToolCall

CompletionEmpties == ReadToEnd => accumulatedToolCall = NoToolCall

OnlyAtBoundary ==
  InLoop =>
    \A i \in 1 .. Len(script) :
       ~IsBoundary(script[i]) =>
          ToolCalls(AfterLine(script[i]).calls) = ToolCalls(calls)

C30_FinalizedAtBoundary ==
  BoundaryEmpties /\ CompletionEmpties /\ OnlyAtBoundary

\* A buffer that parses is emitted and discarded at its boundary.
Parses(arguments) ==
  ParseJSON(IF arguments = <<>> THEN EmptyObject ELSE arguments).ok

ParsedBoundaryEmpties ==
  (InLoop /\ Parses(accumulatedToolCall.arguments)) =>
     LET st == AfterLine(BoundaryFrame(body.provider))
     IN /\ st.acc = NoToolCall
        /\ accumulatedToolCall.name # "" =>
              Len(ToolCalls(st.calls)) = Len(ToolCalls(calls)) + 1

\* The stream was read through a boundary whose buffer did not parse.
KeptBuffer ==
  /\ ReadToEnd
  /\ \E i \in 1 .. Len(script) : IsBoundary(script[i])
  /\ accumulatedToolCall.name = "lookup"
  /\ ~Parses(accumulatedToolCall.arguments)
  /\ ToolCalls(calls) = <<>>

\* The stream ended with a whole buffer and no boundary.
NeverFinalized ==
  /\ ReadToEnd
  /\ \A i \in 1 .. Len(script) : ~IsBoundary(script[i])
  /\ accumulatedToolCall.arguments = EmptyObject
  /\ ToolCalls(calls) = <<>>

\* A buffer kept at one boundary was parsed at a later one.
ParsedLater ==
  /\ ReadToEnd
  /\ script \in TruncatedOpenAI
  /\ Len(ToolCalls(calls)) = 1
  /\ calls[1].cb = "onChunk"

(***************************************************************************)
(* C31: in a family-B stream a tool_use block (its start, any number of   *)
(* input_json_delta frames, its stop) yields exactly one tool call, with   *)
(* the provider's id, the block's name and the parse of the concatenated   *)
(* partial JSON; a content_block_stop with no open accumulator yields      *)
(* none.                                                                   *)
(***************************************************************************)
ToolUseStarts == SelectSeq(script, LAMBDA f : f.kind = "tool_use_start")

RECURSIVE PartialJson(_)
PartialJson(frames) ==
  IF frames = <<>> THEN <<>>
  ELSE (IF Head(frames).kind = "input_json_delta" THEN Head(frames).text
        ELSE <<>>) \o PartialJson(Tail(frames))

ExpectedToolUse ==
  LET json == PartialJson(script)
  IN [toolName |-> ToolUseStarts[1].name,
      arguments |-> ParseJSON(IF json = <<>> THEN EmptyObject
                              ELSE json).value,
      id |-> ToolUseStarts[1].id]

OneToolUse ==
  (ReadToEnd /\ body.provider = "anthropic") =>
     IF ToolUseStarts = <<>> THEN ToolCalls(calls) = <<>>
     ELSE ToolCalls(calls) =
            <<Call("onToolInvocation", <<>>, ExpectedToolUse, TRUE)>>

StopWithoutToolUse ==
  (InLoop /\ body.provider = "anthropic"
     /\ accumulatedToolCall = NoToolCall) =>
     AfterLine(ContentBlockStop) = LoopState

C31_ToolUseOnce == OneToolUse /\ StopWithoutToolUse

\* C31 witness: a stream with a text block and a tool_use block of two
\* fragments was read to its end: the text block's stop emitted nothing,
\* the tool_use block's stop emitted the one call.
C31_Witness ==
  /\ ReadToEnd
  /\ body.provider = "anthropic"
  /\ Len(ToolUseStarts) = 1
  /\ Len(SelectSeq(script, LAMBDA f : f.kind = "input_json_delta")) = 2
  /\ Len(SelectSeq(script, LAMBDA f : f.kind = "content_block_stop")) >= 2
  /\ Len(ToolCalls(calls)) = 1
  /\ ToolCalls(calls)[1].invocation.id = "tu1"
  /\ ToolCalls(calls)[1].invocation.arguments = <<"b">>

(***************************************************************************)
(* C32: once the caller has disconnected, the next iteration of the decode *)
(* loop that reads anything cancels the upstream read and returns,        *)
(* whatever the frames read are, and nothing more is written to the        *)
(* caller.                                                                 *)
(***************************************************************************)
IsReadStep == hpc = "read" /\ hpc' # "read"

StopsAtNextRead ==
  (IsReadStep /\ ~isClientConnected /\ wire # <<>>) =>
     readerCancelled' /\ hpc' = "returned"

NothingWrittenAfter == ~isClientConnected => written' = written

C32_DisconnectPolled ==
  [][ StopsAtNextRead /\ NothingWrittenAfter ]_vars

\* A text delta read after the disconnect does end the loop.
TextStopsLoop ==
  (InLoop /\ ~isClientConnected) =>
     \A i \in 1 .. Len(script) :
        IsText(script[i]) =>
           /\ AfterLine(script[i]).returned
           /\ AfterLine(script[i]).readerCancelled
           /\ AfterLine(script[i]).written = written

\* After the disconnect no chunk, tool call or end marker is written.
OnlyErrorWrittenAfter ==
  [][ ~isClientConnected =>
        \/ written' = written
        \/ /\ hpc = "threw"
           /\ written' =
                Append(written, Written("error", <<error>>, NoInvocation))
     ]_vars

\* The caller is gone and the loop has since read a whole tool call.
ReadOnAfterDisconnect ==
  /\ hpc = "top"
  /\ ~isClientConnected
  /\ written = <<>>
  /\ Len(ToolCalls(calls)) = 1
  /\ ~readerCancelled

(***************************************************************************)
(* C33: a gateway request of an exempt prompt category that is not banned  *)
(* is allowed at once and the quota store is left untouched: no record is  *)
(* created, no counter changed, no reset applied, whatever the counters.   *)
(***************************************************************************)
ArrivesAt(p) ==
  pc[p] = "idle" /\ pc'[p] # "idle" /\ req'[p].gate = "gateway"

OnBanList(r) ==
  \/ r.clientIP \in BANNED_IPS
  \/ r.deviceId \in BANNED_DEVICES
  \/ r.userId \in BANNED_USERS

C33_ExemptUntouched ==
  [][ \A p \in Reqs :
        ( /\ ArrivesAt(p)
          /\ req'[p].promptType \in exemptPromptTypes
          /\ ~OnBanList(req'[p]) ) =>
            /\ pc'[p] = "done"
            /\ rateLimitResult'[p] = Allowed
            /\ usage' = usage
            /\ storeFailures' = storeFailures ]_vars

\* C33 witness: an exempt request was allowed while the record of its
\* identity stands at the text limit.
C33_Witness ==
  \E p \in Reqs :
     /\ Returned(p)
     /\ req[p].gate = "gateway"
     /\ req[p].promptType = "dailyBoosts"
     /\ rateLimitResult[p] = Allowed
     /\ usage # NoRow
     /\ usage.text_sessions_count >= TEXT_LIMIT
     /\ usage = usage0

\* An exempt request that has returned never went to the store.
C33_WitnessNoRecord ==
  \E p \in Reqs :
     /\ Returned(p)
     /\ req[p].gate = "gateway"
     /\ req[p].promptType = "dailyMetrics"
     /\ rateLimitResult[p] = Allowed
     /\ usage = NoRow

\* The older gateway's gate (pages/api/ai-gateway.ts) has the same shortcut.
AgExemptUntouched ==
  (agPc # "idle" /\ agBody.message /\ ~agBody.userApiKey
     /\ agBody.promptType \in exemptPromptTypes) =>
     /\ AgNoStoreCall
     /\ agPc \in {"gateDone", "admitted", "served"}
     /\ agResult = AgAllowed

(***************************************************************************)
(* C34: in the gateway's gate the address, the device and the user are    *)
(* each tested against their ban list before the exempt shortcut and       *)
(* before any store call: a request with one of them on its list is        *)
(* denied as banned at once and changes no counter, and a request with     *)
(* none of them on a list is never denied as banned.                       *)
(***************************************************************************)
BannedAtOnce ==
  [][ \A p \in Reqs :
        (ArrivesAt(p) /\ OnBanList(req'[p])) =>
            /\ pc'[p] = "done"
            /\ rateLimitResult'[p] = Banned
            /\ usage' = usage
            /\ storeFailures' = storeFailures ]_vars

BannedOnlyIfListed ==
  \A p \in Reqs :
     (Returned(p) /\ req[p].gate = "gateway"
        /\ rateLimitResult[p].banned) => OnBanList(req[p])

C34_BanDimensions == BannedAtOnce /\ []BannedOnlyIfListed

\* C34 witness: a request of an exempt category whose user alone is on a
\* ban list was denied as banned, the record untouched.
C34_Witness ==
  \E p \in Reqs :
     /\ Returned(p)
     /\ req[p].gate = "gateway"
     /\ req[p].userId \in BANNED_USERS
     /\ req[p].deviceId \notin BANNED_DEVICES
     /\ req[p].promptType \in exemptPromptTypes
     /\ rateLimitResult[p] = Banned
     /\ usage = usage0

(***************************************************************************)
(* C35: a provider answer that is not 2xx ends the request: the normalizer *)
(* throws with the provider's message before any callback, and the handler *)
(* answers, under the SSE header already sent, with exactly one error      *)
(* frame and the end of the response, writes no chunk and no [DONE]       *)
(* frame, and hands one error row (and no response row) to telemetry.      *)
(***************************************************************************)
ErrorFrame(message) == Written("error", <<message>>, NoInvocation)

Rows(event_type) ==
  SelectSeq(telemetry, LAMBDA r : r.event_type = event_type)

ProviderRefused == error = "api_error"

RefusedIsTerminal ==
  ProviderRefused =>
     /\ hpc \in {"threw", "ended"}
     /\ upstreamCalls = 1
     /\ httpStatus = 200
     /\ calls = <<>>
     /\ responseChunks = <<>>
     /\ Rows("response") = <<>>
     /\ hpc = "threw" => written = <<>> /\ Rows("error") = <<>>
     /\ hpc = "ended" =>
           /\ written = <<ErrorFrame("api_error")>>
           /\ Len(Rows("error")) <= 1

\* The one call of trackAIError: its row is added in the step that writes
\* the error frame, unless the insert fails, and in no other step.
OneErrorRow ==
  [][ IF hpc = "threw" /\ hpc' = "ended"
      THEN telemetry' \in {telemetry,
                           Append(telemetry, AiUsage("error", FALSE))}
      ELSE Rows("error")' = Rows("error") ]_vars

RECURSIVE AllToolCalls(_)
AllToolCalls(frames) ==
  IF frames = <<>> THEN <<>>
  ELSE (IF Head(frames).kind = "chunk" THEN Head(frames).tool_calls
        ELSE <<>>) \o AllToolCalls(Tail(frames))

RECURSIVE ConcatOf(_)
ConcatOf(entries) ==
  IF entries = <<>> THEN <<>>
  ELSE Head(entries).arguments \o ConcatOf(Tail(entries))

OfIndex(i) == SelectSeq(AllToolCalls(script), LAMBDA t : t.index = i)

Indices == {t.index : t \in Range(AllToolCalls(script))}

ExpectedCall(i) ==
  [toolName |-> SelectSeq(OfIndex(i), LAMBDA t : t.name # "")[1].name,
   arguments |-> ParseJSON(ConcatOf(OfIndex(i))).value]

MadeCalls ==
  [j \in 1 .. Len(ToolCalls(calls)) |->
     [toolName |-> ToolCalls(calls)[j].invocation.toolName,
      arguments |-> ToolCalls(calls)[j].invocation.arguments]]

C36_PerIndexAccumulation ==
  (ReadToEnd /\ body.provider = "openai") =>
     /\ Len(MadeCalls) = Cardinality(Indices)
     /\ \A i \in Indices :
          Cardinality({j \in 1 .. Len(MadeCalls) :
                         MadeCalls[j] = ExpectedCall(i)}) = 1

\* What the loop does: one accumulator for all indices, so only the call
\* named last is made, with the fragments that arrived after its name.
LastNamedOnly ==
  (ReadToEnd /\ body.provider = "openai") =>
     /\ Len(MadeCalls) <= 1
     /\ Len(MadeCalls) = 1 =>
          MadeCalls[1].toolName =
            AllToolCalls(script)[
              CHOOSE k \in 1 .. Len(AllToolCalls(script)) :
                /\ AllToolCalls(script)[k].name # ""
                /\ \A m \in k + 1 .. Len(AllToolCalls(script)) :
                      AllToolCalls(script)[m].name = ""].name

\* Two tool calls arrived one after the other; the first was never made.
FirstCallDropped ==
  /\ ReadToEnd
  /\ Cardinality(Indices) = 2
  /\ Len(MadeCalls) = 1
  /\ MadeCalls[1] = [toolName |-> "save", arguments |-> <<"c">>]

\* Two tool calls arrived interleaved; their fragments were merged into
\* one buffer, which did not parse, and no call was made.
CallsMerged ==
  /\ ReadToEnd
  /\ Cardinality(Indices) = 2
  /\ MadeCalls = <<>>
  /\ accumulatedToolCall.name = "save"
  /\ {"b", "c"} \subseteq Range(accumulatedToolCall.arguments)

(***************************************************************************)
(* C37: for an admitted request that raised no error, the response row of  *)
(* telemetry says aborted exactly when no [DONE] frame was sent: either    *)
(* [DONE] was sent and the row says not aborted, or it was not sent and    *)
(* the row says aborted.                                                   *)
(***************************************************************************)
DoneSent == \E i \in 1 .. Len(written) : written[i] = DoneFrame

EndedWithoutError == hpc = "ended" /\ error = "none"

C37_AbortedFlagExact ==
  EndedWithoutError =>
     \A i \in 1 .. Len(Rows("response")) :
        Rows("response")[i].streamAborted = ~DoneSent

\* One direction holds: a row that says aborted belongs to a response
\* without [DONE], and there is at most one response row.
AbortedMeansNoDone ==
  EndedWithoutError =>
     /\ Len(Rows("response")) <= 1
     /\ \A i \in 1 .. Len(Rows("response")) :
          Rows("response")[i].streamAborted =>
             ~DoneSent /\ ~isClientConnected

\* The caller left, no [DONE] was sent, and the row says not aborted.
DisconnectNotFlagged ==
  /\ EndedWithoutError
  /\ ~isClientConnected
  /\ ~DoneSent
  /\ Rows("response") = <<AiUsage("response", FALSE)>>

(***************************************************************************)
(* C38: the callbacks made do not depend on how the provider's bytes are   *)
(* cut into reads: at every moment they are the callbacks of the whole     *)
(* lines received so far, the unfinished line is held in the buffer, and   *)
(* a stream read to its end has produced the callbacks of the same bytes   *)
(* read at once.                                                           *)
(***************************************************************************)
Received ==
  SubSeq(SerializeAll(script), 1, Len(SerializeAll(script)) - Len(wire))

ReceivedLines == split(Received, <<>>, <<>>)

WholeLines == SubSeq(ReceivedLines, 1, Len(ReceivedLines) - 1)

Decoding ==
  /\ hpc \in {"top", "read", "returned"}
  /\ isClientConnected

SplitIndependent ==
  Decoding =>
     /\ calls = processLines(body.provider, FreshLoop, WholeLines).calls
     /\ accumulatedToolCall =
          processLines(body.provider, FreshLoop, WholeLines).acc
     /\ buffer = ReceivedLines[Len(ReceivedLines)]

SameAsOneRead ==
  ReadToEnd =>
     /\ calls = RunAll(body.provider, script).calls
     /\ responseChunks = RunAll(body.provider, script).responseChunks

C38_SplitIndependent == SplitIndependent /\ SameAsOneRead

\* C38 witness: a read ended in the middle of a frame, after earlier
\* frames had been delivered: the half frame is held in the buffer.
C38_Witness ==
  /\ hpc = "top"
  /\ isClientConnected
  /\ Len(calls) >= 1
  /\ Len(buffer) = 1
  /\ buffer[1].half = 1
  /\ wire # <<>>

(***************************************************************************)
(* C39: the unit the gate counted at admission is never given back: once   *)
(* the gate has returned, no step of the request (completion, abort by     *)
(* disconnect, provider error, timeout) changes the quota record.          *)
(***************************************************************************)
PastGate == hpc \notin {"idle", "gate"}

C39_ReservationKept == [][ PastGate => usage' = usage ]_vars

Counted ==
  /\ ~body.userApiKey
  /\ rateLimitResult[1] = Allowed
  /\ usage # NoRow
  /\ usage0 # NoRow
  /\ usage.text_sessions_count = usage0.text_sessions_count + 1

\* C39 witness: a counted request ended in an error frame, the count kept.
C39_Witness ==
  /\ hpc = "ended"
  /\ error \in {"api_error", "timeout"}
  /\ Counted

\* A counted request whose caller left ended with the count kept.
C39_WitnessAborted ==
  /\ hpc = "ended"
  /\ error = "none"
  /\ streamAborted
  /\ Counted

\* A counted request completed with [DONE], the count kept.
C39_WitnessCompleted ==
  /\ hpc = "ended"
  /\ error = "none"
  /\ DoneSent
  /\ Counted

=============================================================================
